---- MODULE Spec2Model ----
(***************************************************************************)
(* A model of the discovery-and-analysis pipeline of geo-analyse           *)
(* (src/server/index.js): heading order issues, the score, the sitemap     *)
(* resolver, the crawl frontier and the job runner.                        *)
(***************************************************************************)
EXTENDS Integers, Sequences, FiniteSets, TLC

VARIABLES
  \* headingOrderIssues
  hs,        \* the heading levels of the document, in document order
  hI,        \* the loop index i (0-based, as in the code)
  hIssues,   \* the issues pushed so far
  hPc,       \* "idle", "loop", "done"
  \* scoreFromFlags
  sPc,       \* "idle", "rules", "done"
  sRule,     \* the number of the next if-statement
  sd, tech, content, social,   \* the four accumulators
  total,     \* the returned total (Undef until the return)
  allBest,   \* every flag read so far held its best value
  allWorst   \* every flag read so far held false or its worst value

headingVars == <<hs, hI, hIssues, hPc>>
scoreVars == <<sPc, sRule, sd, tech, content, social, total, allBest, allWorst>>

\* A JavaScript value that may be missing: <<>> is undefined, <<x>> is x.
Undef == <<>>
Def(x) == <<x>>

Max(a, b) == IF a >= b THEN a ELSE b
Min(a, b) == IF a <= b THEN a ELSE b

(***************************************************************************)
(* headingOrderIssues                                                      *)
(***************************************************************************)
MaxHeadings == 3
MaxLevel == 6

HeadingSeqs == UNION {[1..n -> 1..MaxLevel] : n \in 0..MaxHeadings}

\* hs[i] with the code's 0-based index
At(s, i) == s[i + 1]

HeadingJumpLoose(prev, cur) == cur - prev >= 1

HeadingJumpEitherWay(prev, cur) == cur - prev > 1 \/ prev - cur > 1

\* if (cur - prev > 1)
HeadingJump(prev, cur) == cur - prev > 1

\* `Sprung von H${prev} auf H${cur} (Index ${i})`
HeadingIssue(prev, cur, i) == [prev |-> prev, cur |-> cur, index |-> i]

HeadingInit ==
  /\ hs \in HeadingSeqs
  /\ hI = 1
  /\ hIssues = <<>>
  /\ hPc = "loop"

HeadingIdle ==
  /\ hs = <<>>
  /\ hI = 1
  /\ hIssues = <<>>
  /\ hPc = "idle"

\* one iteration of for (let i = 1; i < hs.length; i++)
HeadingLoop ==
  /\ hPc = "loop"
  /\ hI < Len(hs)
  /\ LET prev == At(hs, hI - 1)
         cur == At(hs, hI)
     IN hIssues' = IF HeadingJump(prev, cur)
                   THEN Append(hIssues, HeadingIssue(prev, cur, hI))
                   ELSE hIssues
  /\ hI' = hI + 1
  /\ UNCHANGED <<hs, hPc>>

\* return issues
HeadingReturn ==
  /\ hPc = "loop"
  /\ ~(hI < Len(hs))
  /\ hPc' = "done"
  /\ UNCHANGED <<hs, hI, hIssues>>


(***************************************************************************)
(* scoreFromFlags                                                          *)
(***************************************************************************)
BoolVals == {Def(TRUE), Def(FALSE), Undef}
NumVals == {Undef} \cup {Def(n) : n \in {0, 1, 2, 199, 200}}

\* The if-statements of scoreFromFlags in order: the accumulator, the flag(s)
\* read, the test and the points.
ScoreRules == <<
  [acc |-> "sd", flag |-> "hasJSONLD", test |-> "truthy", pts |-> 10],
  [acc |-> "sd", flag |-> "hasOrganization", test |-> "truthy", pts |-> 6],
  [acc |-> "sd", flag |-> "hasLocalBusiness", test |-> "truthy", pts |-> 6],
  [acc |-> "sd", flag |-> "hasWebsite", test |-> "truthy", pts |-> 6],
  [acc |-> "sd", flag |-> "hasSearchAction", test |-> "truthy", pts |-> 4],
  [acc |-> "sd", flag |-> "hasBreadcrumb", test |-> "truthy", pts |-> 3],
  [acc |-> "sd", flag |-> "hasFAQ", test |-> "truthy", pts |-> 4],
  [acc |-> "sd", flag |-> "hasArticle", test |-> "truthy", pts |-> 3],
  [acc |-> "tech", flag |-> "hasCanonical", test |-> "truthy", pts |-> 6],
  [acc |-> "tech", flag |-> "indexable", test |-> "truthy", pts |-> 12],
  [acc |-> "tech", flag |-> "robotsTxtFound", test |-> "truthy", pts |-> 3],
  [acc |-> "tech", flag |-> "sitemapFound", test |-> "truthy", pts |-> 3],
  [acc |-> "tech", flag |-> "langSet", test |-> "truthy", pts |-> 3],
  [acc |-> "tech", flag |-> "hOrderOk", test |-> "truthy", pts |-> 3],
  [acc |-> "tech", flag |-> "redirectChain", test |-> "le1", pts |-> 3],
  [acc |-> "tech", flag |-> "hreflangCount", test |-> "hreflang", pts |-> 2],
  [acc |-> "content", flag |-> "h1Count", test |-> "eq1", pts |-> 5],
  [acc |-> "content", flag |-> "h2Count", test |-> "ge1", pts |-> 3],
  [acc |-> "content", flag |-> "wordCount", test |-> "ge200", pts |-> 6],
  [acc |-> "content", flag |-> "goodAltRatio", test |-> "truthy", pts |-> 4],
  [acc |-> "content", flag |-> "metaDescGood", test |-> "truthy", pts |-> 5],
  [acc |-> "content", flag |-> "titleGood", test |-> "truthy", pts |-> 5],
  [acc |-> "social", flag |-> "ogOk", test |-> "truthy", pts |-> 4],
  [acc |-> "social", flag |-> "twitterOk", test |-> "truthy", pts |-> 3]
>>

\* The values a rule's flag may hold (a missing field reads as undefined); the
\* hreflang rule reads hreflangCount and hreflangXDefault.
RuleInputs(r) ==
  CASE r.test = "truthy" -> BoolVals \X {Undef}
    [] r.test = "hreflang" -> NumVals \X BoolVals
    [] OTHER -> NumVals \X {Undef}

\* if (f.flag) for a boolean flag that may be missing
Truthy(b) == b = Def(TRUE)

RuleTestH1AtLeast(r, v) ==
  CASE r.test = "truthy" -> Truthy(v[1])
    [] r.test = "le1" -> v[1] # Undef /\ v[1][1] <= 1
    [] r.test = "eq1" -> v[1] # Undef /\ v[1][1] >= 1
    [] r.test = "ge1" -> v[1] # Undef /\ v[1][1] >= 1
    [] r.test = "ge200" -> v[1] # Undef /\ v[1][1] >= 200
    [] r.test = "hreflang" -> v[1] # Undef /\ v[1][1] > 0 /\ Truthy(v[2])

\* The condition of a rule on the values read; a comparison with undefined is false.
RuleTest(r, v) ==
  CASE r.test = "truthy" -> Truthy(v[1])
    [] r.test = "le1" -> v[1] # Undef /\ v[1][1] <= 1
    [] r.test = "eq1" -> v[1] # Undef /\ v[1][1] = 1
    [] r.test = "ge1" -> v[1] # Undef /\ v[1][1] >= 1
    [] r.test = "ge200" -> v[1] # Undef /\ v[1][1] >= 200
    [] r.test = "hreflang" -> v[1] # Undef /\ v[1][1] > 0 /\ Truthy(v[2])

\* The flag values called best: booleans true, h1Count = 1, h2Count >= 1,
\* wordCount >= 200, redirectChain <= 1, hreflang present with x-default.
BestValue(r, v) ==
  CASE r.flag = "redirectChain" -> v[1] \in {Def(0), Def(1)}
    [] r.flag = "hreflangCount" -> v[1] \in {Def(1), Def(2), Def(199), Def(200)} /\ v[2] = Def(TRUE)
    [] r.flag = "h1Count" -> v[1] = Def(1)
    [] r.flag = "h2Count" -> v[1] \in {Def(1), Def(2), Def(199), Def(200)}
    [] r.flag = "wordCount" -> v[1] = Def(200)
    [] OTHER -> v[1] = Def(TRUE)

\* The flag values called worst: booleans false, h1Count other than 1, no h2,
\* fewer than 200 words, a redirect chain longer than 1, no hreflang.
WorstValue(r, v) ==
  CASE r.flag = "redirectChain" -> v[1] \in {Def(2), Def(199), Def(200)}
    [] r.flag = "hreflangCount" -> v[1] = Def(0) /\ v[2] = Def(FALSE)
    [] r.flag = "h1Count" -> v[1] \in {Def(0), Def(2)}
    [] r.flag = "h2Count" -> v[1] = Def(0)
    [] r.flag = "wordCount" -> v[1] \in {Def(0), Def(1), Def(2), Def(199)}
    [] OTHER -> v[1] = Def(FALSE)

NoClamp(x) == x

\* Math.max(0, Math.min(100, x))
Clamp(x) == Max(0, Min(100, x))

ScoreInit ==
  /\ sPc = "rules"
  /\ sRule = 1
  /\ sd = 0 /\ tech = 0 /\ content = 0 /\ social = 0
  /\ total = Undef
  /\ allBest = TRUE
  /\ allWorst = TRUE

ScoreIdle ==
  /\ sPc = "idle"
  /\ sRule = 1
  /\ sd = 0 /\ tech = 0 /\ content = 0 /\ social = 0
  /\ total = Undef
  /\ allBest = TRUE
  /\ allWorst = TRUE

\* one if-statement of scoreFromFlags, for every value of the flag it reads
ScoreRule ==
  /\ sPc = "rules"
  /\ sRule <= Len(ScoreRules)
  /\ LET r == ScoreRules[sRule] IN
     \E v \in RuleInputs(r) :
       LET hit == RuleTest(r, v)
           add == IF hit THEN r.pts ELSE 0
       IN /\ sd' = IF r.acc = "sd" THEN sd + add ELSE sd
          /\ tech' = IF r.acc = "tech" THEN tech + add ELSE tech
          /\ content' = IF r.acc = "content" THEN content + add ELSE content
          /\ social' = IF r.acc = "social" THEN social + add ELSE social
          /\ allBest' = (allBest /\ BestValue(r, v))
          /\ allWorst' = (allWorst /\ WorstValue(r, v))
  /\ sRule' = sRule + 1
  /\ UNCHANGED <<sPc, total>>

\* const total = ...; return { total, breakdown }
ScoreReturn ==
  /\ sPc = "rules"
  /\ sRule > Len(ScoreRules)
  /\ total' = Def(Clamp(sd + tech + content + social))
  /\ sPc' = "done"
  /\ UNCHANGED <<sRule, sd, tech, content, social, allBest, allWorst>>


(***************************************************************************)
(* Strings and URLs                                                        *)
(*                                                                         *)
(* A text is a sequence of tokens (words, separators, white space): enough *)
(* to split it on a separator, trim it and lower-case it as the code does. *)
(* A URL object is a record of its parts; the string it prints as          *)
(* (toString, href) is identified with the record of its normalised parts. *)
(***************************************************************************)
IsSpace(t) == t \in {" ", "\r", "\t"}

RECURSIVE TrimLeft(_)
TrimLeft(s) == IF s # <<>> /\ IsSpace(Head(s)) THEN TrimLeft(Tail(s)) ELSE s

RECURSIVE TrimRight(_)
TrimRight(s) ==
  IF s # <<>> /\ IsSpace(s[Len(s)]) THEN TrimRight(SubSeq(s, 1, Len(s) - 1)) ELSE s

\* String.prototype.trim
Trim(s) == TrimRight(TrimLeft(s))

\* String.prototype.split(sep): the pieces between the separators
RECURSIVE SplitFrom(_, _, _)
SplitFrom(s, sep, cur) ==
  IF s = <<>> THEN <<cur>>
  ELSE IF Head(s) = sep THEN <<cur>> \o SplitFrom(Tail(s), sep, <<>>)
  ELSE SplitFrom(Tail(s), sep, Append(cur, Head(s)))

Split(s, sep) == SplitFrom(s, sep, <<>>)

\* Array.prototype.join(sep)
RECURSIVE Join(_, _)
Join(parts, sep) ==
  IF parts = <<>> THEN <<>>
  ELSE IF Len(parts) = 1 THEN parts[1]
  ELSE parts[1] \o <<sep>> \o Join(Tail(parts), sep)

\* String.prototype.toLowerCase, on the words the robots.txt texts use and on
\* the letters the robots directives are spelled with
LowerToken(t) ==
  CASE t \in {"Sitemap", "SITEMAP"} -> "sitemap"
    [] t \in {"Disallow", "DISALLOW"} -> "disallow"
    [] t = "User-agent" -> "user-agent"
    [] t = "N" -> "n"
    [] t = "O" -> "o"
    [] t = "I" -> "i"
    [] t = "D" -> "d"
    [] t = "E" -> "e"
    [] t = "X" -> "x"
    [] OTHER -> t

ToLowerCase(s) == [i \in 1..Len(s) |-> LowerToken(s[i])]

\* a.some(x => x = v) on a sequence
Contains(seq, x) == \E i \in 1..Len(seq) : seq[i] = x

\* Set.prototype.add on a Set kept in insertion order
SetAdd(seq, x) == IF Contains(seq, x) THEN seq ELSE Append(seq, x)

RECURSIVE SetAddAll(_, _)
SetAddAll(seq, xs) == IF xs = <<>> THEN seq ELSE SetAddAll(SetAdd(seq, Head(xs)), Tail(xs))

Range(seq) == {seq[i] : i \in 1..Len(seq)}

\* A URL: scheme, host labels, port, path, the extension the path ends with,
\* query string and fragment.
Url(scheme, host, path, ext, query, hash) ==
  [scheme |-> scheme, host |-> host, path |-> path, ext |-> ext,
   query |-> query, hash |-> hash]

\* the extensions of ASSET_RE, matched case-insensitively
AssetExts == {"xml", "jpg", "jpeg", "png", "gif", "webp", "svg", "avif", "pdf", "zip",
              "rar", "7z", "mp4", "webm", "mp3", "wav", "woff", "woff2", "ttf", "ico"}

LowerExt(e) ==
  CASE e = "PNG" -> "png"
    [] e = "PDF" -> "pdf"
    [] e = "XML" -> "xml"
    [] OTHER -> e

\* ASSET_RE.test(u.pathname): the path ends with a dot and an asset extension
IsAssetPath(u) == LowerExt(u.ext) \in AssetExts

\* A string handed to new URL(): "canon" is the normalised spelling of url,
\* "alt" another spelling of the same URL (upper-case scheme or host, default
\* port), "invalid" a string new URL() throws on, "empty" the empty string.
Loc(form, url) == [form |-> form, url |-> url]

\* new URL(loc): Undef where it throws
ParseUrl(loc) == IF loc.form \in {"canon", "alt"} THEN Def(loc.url) ELSE Undef

\* if (loc): a non-empty string
NonEmpty(loc) == loc.form # "empty"

(***************************************************************************)
(* parseRobotsTxt                                                          *)
(***************************************************************************)
\* one line of robots.txt: Undef where the loop continues without a directive
RobotsDirective(line) ==
  LET l == Trim(line)
      parts == Split(l, ":")
      kRaw == parts[1]
      rest == Tail(parts)
  IN IF l = <<>> \/ Head(l) = "#" THEN Undef
     ELSE IF kRaw = <<>> \/ rest = <<>> THEN Undef
     ELSE Def([k |-> ToLowerCase(Trim(kRaw)), v |-> Trim(Join(rest, ":"))])

RECURSIVE RobotsValues(_, _)
RobotsValues(lines, key) ==
  IF lines = <<>> THEN <<>>
  ELSE LET d == RobotsDirective(Head(lines))
       IN (IF d # Undef /\ d[1].k = <<key>> THEN <<d[1].v>> ELSE <<>>)
          \o RobotsValues(Tail(lines), key)

\* parseRobotsTxt(text): the values of the Sitemap and Disallow lines, in order
parseRobotsTxt(text) ==
  LET lines == Split(text, "\n")
  IN [sitemaps |-> RobotsValues(lines, "sitemap"),
      disallow |-> RobotsValues(lines, "disallow")]

(***************************************************************************)
(* getSitemapDeep                                                          *)
(***************************************************************************)
VARIABLES
  origin,          \* the origin argument
  cap,             \* the cap argument
  robots,          \* the site: the response to GET {origin}/robots.txt
  docs,            \* the site: sitemap URL -> the document served there
  smPc,            \* "idle", "robots", "loop", "done"
  smRun,           \* the number of the run against this site (1 or 2)
  seenSitemaps,    \* const seenSitemaps = new Set()
  urls,            \* const urls = new Set(), in insertion order
  robotsTxt,       \* let robotsTxt
  candidates,      \* let candidates
  disallow,        \* let disallow
  listedInRobots,  \* let listedInRobots
  cI,              \* the position of for (const sm of candidates)
  stack,           \* the active calls of expand on sitemap indexes, innermost last
  fetchLog,        \* the sitemap URLs handed to fetchXml in this run, in order
  smSteps,         \* the number of steps this run has taken
  smResult,        \* the value returned by this run (Undef before)
  smFirst          \* the value returned by the first run (Undef before)

siteVars == <<origin, cap, robots, docs>>
sitemapVars == <<smPc, smRun, seenSitemaps, urls, robotsTxt, candidates, disallow,
                 listedInRobots, cI, stack, fetchLog, smSteps, smResult, smFirst>>

\* `${origin}/robots.txt` is fetched; `${origin}/sitemap.xml`
FallbackSitemapIndex(o) == o \o <<"/sitemap_index.xml">>

FallbackSitemap(o) == o \o <<"/sitemap.xml">>

NoDoc == [kind |-> "none", locs |-> <<>>]

\* fetchXml(u) followed by parseStringPromise: the document at u. "none": the
\* fetch fails, is not ok or has an empty body; "bad": the XML does not parse.
DocAt(u) == IF u \in DOMAIN docs THEN docs[u] ELSE NoDoc

RECURSIVE AddUrlsetUncapped(_, _, _)
AddUrlsetUncapped(acc, locs, c) ==
  IF locs = <<>> THEN acc
  ELSE LET href == ParseUrl(Head(locs))
       IN IF ~NonEmpty(Head(locs)) \/ href = Undef \/ IsAssetPath(href[1])
          THEN AddUrlsetUncapped(acc, Tail(locs), c)
          ELSE AddUrlsetUncapped(SetAdd(acc, href[1]), Tail(locs), c)

\* the loop over parsed.urlset.url, from urls = acc
RECURSIVE AddUrlset(_, _, _)
AddUrlset(acc, locs, c) ==
  IF locs = <<>> THEN acc
  ELSE LET loc == Head(locs)
           href == ParseUrl(loc)
       IN IF ~NonEmpty(loc) THEN AddUrlset(acc, Tail(locs), c)
          ELSE IF href # Undef /\ IsAssetPath(href[1]) THEN AddUrlset(acc, Tail(locs), c)
          ELSE LET acc2 == IF href # Undef THEN SetAdd(acc, href[1]) ELSE acc
               IN IF Len(acc2) >= c THEN acc2 ELSE AddUrlset(acc2, Tail(locs), c)

KeptSeenSitemaps == seenSitemaps

\* const seenSitemaps = new Set() at the start of every call
FreshSeenSitemaps == {}

SeenNeverAdds(seen, smUrl) == seen

\* seenSitemaps.add(smUrl)
SeenAdd(seen, smUrl) == seen \cup {smUrl}

\* The guard of expand(smUrl)
ExpandSkips(smUrl) == smUrl \in seenSitemaps \/ Len(urls) >= cap

\* A call expand(smUrl) up to its first await on a child (or its return): the
\* guard, seenSitemaps.add, fetchXml, the parse, and the whole urlset loop. An
\* index with children becomes a new innermost call; rest is the stack below.
Expand(smUrl, rest) ==
  IF ExpandSkips(smUrl)
  THEN /\ stack' = rest
       /\ UNCHANGED <<seenSitemaps, urls, fetchLog>>
  ELSE LET doc == DocAt(smUrl) IN
       /\ seenSitemaps' = SeenAdd(seenSitemaps, smUrl)
       /\ fetchLog' = Append(fetchLog, smUrl)
       /\ urls' = IF doc.kind = "urlset" THEN AddUrlset(urls, doc.locs, cap) ELSE urls
       /\ stack' = IF doc.kind = "index" /\ doc.locs # <<>>
                   THEN Append(rest, [sm |-> smUrl, i |-> 1])
                   ELSE rest

\* The start of a call getSitemapDeep(origin, cap)
SitemapStart ==
  /\ smPc' = "robots"
  /\ seenSitemaps' = FreshSeenSitemaps
  /\ urls' = <<>>
  /\ robotsTxt' = <<>>
  /\ candidates' = <<>>
  /\ disallow' = <<>>
  /\ listedInRobots' = FALSE
  /\ cI' = 1
  /\ stack' = <<>>
  /\ fetchLog' = <<>>
  /\ smSteps' = 0
  /\ smResult' = Undef

\* fetch robots.txt, parse it, fall back to /sitemap.xml
SitemapRobots ==
  /\ smPc = "robots"
  /\ LET parsed == parseRobotsTxt(robots.text)
         cands == IF robots.ok THEN parsed.sitemaps ELSE <<>>
     IN /\ robotsTxt' = IF robots.ok THEN robots.text ELSE <<>>
        /\ disallow' = IF robots.ok THEN parsed.disallow ELSE <<>>
        /\ listedInRobots' = (robots.ok /\ Len(cands) > 0)
        /\ candidates' = IF Len(cands) = 0 THEN <<FallbackSitemap(origin)>> ELSE cands
  /\ smPc' = "loop"
  /\ smSteps' = smSteps + 1
  /\ UNCHANGED <<siteVars, smRun, seenSitemaps, urls, cI, stack, fetchLog, smResult, smFirst>>

\* the loop over the candidates ends: all done, or urls.size >= cap
CandidatesEnd == cI > Len(candidates) \/ Len(urls) >= cap

\* for (const sm of candidates) { if (urls.size >= cap) break; await expand(sm); }
SitemapCandidate ==
  /\ smPc = "loop"
  /\ stack = <<>>
  /\ ~CandidatesEnd
  /\ Expand(candidates[cI], <<>>)
  /\ cI' = cI + 1
  /\ smSteps' = smSteps + 1
  /\ UNCHANGED <<siteVars, smPc, smRun, robotsTxt, candidates, disallow, listedInRobots,
                 smResult, smFirst>>

\* the innermost index: its document and whether its loop over the children ends
TopFrame == stack[Len(stack)]
TopLocs == DocAt(TopFrame.sm).locs
TopEnds == TopFrame.i > Len(TopLocs) \/ (TopFrame.i > 1 /\ Len(urls) >= cap)

\* one child of a sitemap index: if (loc) await expand(loc)
SitemapIndexChild ==
  /\ smPc = "loop"
  /\ stack # <<>>
  /\ ~TopEnds
  /\ LET f == TopFrame
         loc == TopLocs[f.i]
         below == [stack EXCEPT ![Len(stack)].i = f.i + 1]
     IN IF loc # <<>>
        THEN Expand(loc, below)
        ELSE /\ stack' = below
             /\ UNCHANGED <<seenSitemaps, urls, fetchLog>>
  /\ smSteps' = smSteps + 1
  /\ UNCHANGED <<siteVars, smPc, smRun, robotsTxt, candidates, disallow, listedInRobots,
                 cI, smResult, smFirst>>

\* the loop over the children ends (all done, or urls.size >= cap): expand returns
SitemapIndexReturn ==
  /\ smPc = "loop"
  /\ stack # <<>>
  /\ TopEnds
  /\ stack' = SubSeq(stack, 1, Len(stack) - 1)
  /\ smSteps' = smSteps + 1
  /\ UNCHANGED <<siteVars, smPc, smRun, seenSitemaps, urls, robotsTxt, candidates,
                 disallow, listedInRobots, cI, fetchLog, smResult, smFirst>>

\* disallow.some((d) => d.trim() === "/")
BroadBlock(dis) == \E i \in 1..Len(dis) : Trim(dis[i]) = <<"/">>

\* the object getSitemapDeep returns
SitemapResult ==
  [robotsTxtFound |-> robotsTxt # <<>>,
   sitemapFound |-> Len(urls) > 0,
   sitemapCandidates |-> candidates,
   urls |-> urls,
   disallow |-> disallow,
   broadBlock |-> BroadBlock(disallow),
   sitemapListedInRobots |-> listedInRobots]

\* the loop over the candidates ends: return
SitemapReturn ==
  /\ smPc = "loop"
  /\ stack = <<>>
  /\ CandidatesEnd
  /\ smPc' = "done"
  /\ smResult' = Def(SitemapResult)
  /\ smFirst' = IF smRun = 1 THEN Def(SitemapResult) ELSE smFirst
  /\ smSteps' = smSteps + 1
  /\ UNCHANGED <<siteVars, smRun, seenSitemaps, urls, robotsTxt, candidates, disallow,
                 listedInRobots, cI, stack, fetchLog>>

\* a second call with the same arguments against the unchanged site
SitemapRerun ==
  /\ smPc = "done"
  /\ smRun = 1
  /\ smRun' = 2
  /\ SitemapStart
  /\ UNCHANGED <<siteVars, smFirst>>

\* getSitemapDeep is not running
SitemapIdle ==
  /\ smPc = "idle"
  /\ smRun = 1
  /\ seenSitemaps = {}
  /\ urls = <<>>
  /\ robotsTxt = <<>>
  /\ candidates = <<>>
  /\ disallow = <<>>
  /\ listedInRobots = FALSE
  /\ cI = 1
  /\ stack = <<>>
  /\ fetchLog = <<>>
  /\ smSteps = 0
  /\ smResult = Undef
  /\ smFirst = Undef

\* the first call getSitemapDeep(origin, cap)
SitemapCall ==
  /\ smPc = "idle"
  /\ SitemapStart
  /\ UNCHANGED <<siteVars, smRun, smFirst>>

(***************************************************************************)
(* crawlInternal                                                           *)
(***************************************************************************)
VARIABLES
  crStart,      \* the startUrl argument (a string)
  crOpts,       \* the options: maxPages, includeParams, render, keepHashSections,
                \* seeds, includePatterns, excludePatterns
  web,          \* the site: URL (without fragment) -> what a fetch or navigation gives
  crPc,         \* "idle", "loop", "done"
  registrable,  \* const registrable
  seen,         \* const seen = new Set(seedList)
  out,          \* const out = [...seedList]
  q,            \* const q = [...seedList]
  browserOpen,  \* the browser launched for a rendered crawl is open
  openPages,    \* the page handles opened by ctx.newPage() and not closed
  visitLog,     \* the URLs taken from the queue, in order
  crResult      \* the list crawlInternal returns (Undef before)

crawlArgs == <<crStart, crOpts, web>>
crawlVars == <<crPc, registrable, seen, out, q, browserOpen, openPages, visitLog, crResult>>

\* host.split(".").slice(-2).join("."): the last two labels of the host
Registrable(host) == IF Len(host) <= 2 THEN host ELSE SubSeq(host, Len(host) - 1, Len(host))

\* new URL(href, base): Undef where it throws. A relative href takes scheme and
\* host from the base; the empty href is the base without its fragment.
Resolve(href, base) ==
  CASE href.form \in {"canon", "alt"} -> Def(href.url)
    [] href.form = "rel" ->
         Def([href.url EXCEPT !.scheme = base.scheme, !.host = base.host])
    [] href.form = "empty" -> Def([base EXCEPT !.hash = ""])
    [] OTHER -> Undef

\* The regular expressions of the pattern lists. "(" does not compile.
DEFAULT_EXCLUDE == "default"
RegexCompiles(pat) == pat # "("

\* re.test(s) on the string of URL u, for the patterns the runs use
RegexTest(pat, u) ==
  CASE pat = DEFAULT_EXCLUDE ->
         \/ u.path \in {"/wp-content/a", "/uploads/b"}
         \/ LowerExt(u.ext) \in AssetExts /\ (u.hash = "" \/ u.query # "")
    [] pat = "\\?" -> u.query # ""
    [] OTHER -> u.path = pat

\* compilePatterns(arr): the patterns that compile, in order
RECURSIVE compilePatterns(_)
compilePatterns(arr) ==
  IF arr = <<>> THEN <<>>
  ELSE (IF RegexCompiles(Head(arr)) THEN <<Head(arr)>> ELSE <<>>)
       \o compilePatterns(Tail(arr))

\* matchAny(res, s) and matchNone(res, s)
matchAny(res, u) == Len(res) = 0 \/ \E i \in 1..Len(res) : RegexTest(res[i], u)
matchNone(res, u) == Len(res) = 0 \/ ~\E i \in 1..Len(res) : RegexTest(res[i], u)

incRE == compilePatterns(crOpts.includePatterns)
excRE ==
  compilePatterns(IF Len(crOpts.excludePatterns) > 0 THEN crOpts.excludePatterns
                  ELSE <<DEFAULT_EXCLUDE>>)

AnyDomain(host, reg) == TRUE

\* reg2 === registrable
SameRegistrable(host, reg) == Registrable(host) = reg

\* seeds.filter(...): the seeds that parse and lie on the registrable domain
RECURSIVE FilterSeeds(_, _)
FilterSeeds(seeds, reg) ==
  IF seeds = <<>> THEN <<>>
  ELSE LET u == ParseUrl(Head(seeds))
       IN (IF u # Undef /\ SameRegistrable(u[1].host, reg) THEN <<Head(seeds)>> ELSE <<>>)
          \o FilterSeeds(Tail(seeds), reg)

\* The body of for (let href of hrefs), from the state acc = [seen, q, out]
\* and for the page at base.
RECURSIVE ProcessHrefs(_, _, _)
ProcessHrefs(hrefs, base, acc) ==
  IF hrefs = <<>> THEN acc
  ELSE LET abs == Resolve(Head(hrefs), base)
           rest == Tail(hrefs)
       IN IF abs = Undef THEN ProcessHrefs(rest, base, acc)
          ELSE IF abs[1].scheme \notin {"http", "https"} THEN ProcessHrefs(rest, base, acc)
          ELSE IF ~SameRegistrable(abs[1].host, registrable) THEN ProcessHrefs(rest, base, acc)
          ELSE LET n1 == IF ~crOpts.includeParams THEN [abs[1] EXCEPT !.query = ""] ELSE abs[1]
                   n2 == IF ~crOpts.keepHashSections THEN [n1 EXCEPT !.hash = ""] ELSE n1
                   str == Loc("canon", n2)
               IN IF IsAssetPath(n2) THEN ProcessHrefs(rest, base, acc)
                  ELSE IF ~matchAny(incRE, n2) THEN ProcessHrefs(rest, base, acc)
                  ELSE IF ~matchNone(excRE, n2) THEN ProcessHrefs(rest, base, acc)
                  ELSE IF str \notin acc.seen /\ Cardinality(acc.seen) < crOpts.maxPages * 6
                  THEN ProcessHrefs(rest, base,
                                    [seen |-> acc.seen \cup {str},
                                     q |-> Append(acc.q, str),
                                     out |-> Append(acc.out, str)])
                  ELSE ProcessHrefs(rest, base, acc)

\* What a fetch of, or a navigation to, the string u gives: the page of the site
\* at that URL (whether the request succeeds, the status, whether the content
\* type is text/html, the noindex marks, the hrefs of its anchors); an address
\* the site does not know fails.
FailedPage ==
  [fetch |-> "fail", status |-> 0, html |-> FALSE, metaNoindex |-> FALSE,
   xRobotsNoindex |-> FALSE, hrefs |-> <<>>]
PageAt(u) ==
  LET key == [u.url EXCEPT !.hash = ""]
  IN IF key \in DOMAIN web THEN web[key] ELSE FailedPage

\* .filter(Boolean) on the hrefs of a rendered page
RECURSIVE FilterBoolean(_)
FilterBoolean(hrefs) ==
  IF hrefs = <<>> THEN <<>>
  ELSE (IF NonEmpty(Head(hrefs)) THEN <<Head(hrefs)>> ELSE <<>>) \o FilterBoolean(Tail(hrefs))

CollectedHrefsOfErrorPage(u) ==
  IF PageAt(u).fetch = "fail" THEN <<Loc("rel", [ParseUrl(u)[1] EXCEPT !.path = "/error"])>>
  ELSE IF crOpts.render THEN FilterBoolean(PageAt(u).hrefs)
  ELSE IF ~PageAt(u).html THEN <<>>
  ELSE PageAt(u).hrefs

\* The hrefs a visit of u collects: none where the fetch, the navigation or the
\* extraction throws, none for a non-HTML response to a static fetch.
CollectedHrefs(u) ==
  LET page == PageAt(u)
  IN IF page.fetch = "fail" THEN <<>>
     ELSE IF crOpts.render THEN FilterBoolean(page.hrefs)
     ELSE IF ~page.html THEN <<>>
     ELSE page.hrefs

\* crawlInternal up to its loop: start, registrable, the patterns, seedList,
\* seen, out, q, and the browser of a rendered crawl
CrawlCall ==
  /\ crPc = "idle"
  /\ LET start == ParseUrl(crStart)[1]
         reg == Registrable(start.host)
         seedList == <<Loc("canon", start)>> \o FilterSeeds(crOpts.seeds, reg)
     IN /\ registrable' = reg
        /\ seen' = Range(seedList)
        /\ out' = seedList
        /\ q' = seedList
  /\ browserOpen' = crOpts.render
  /\ crPc' = "loop"
  /\ UNCHANGED <<crawlArgs, openPages, visitLog, crResult>>

\* while (q.length && out.length < maxPages)
CrawlContinues == Len(q) > 0 /\ Len(out) < crOpts.maxPages

CrawlVisitRetries ==
  /\ crPc = "loop"
  /\ CrawlContinues
  /\ LET u == Head(q)
         failed == PageAt(u).fetch = "fail"
         acc == ProcessHrefs(CollectedHrefs(u), ParseUrl(u)[1],
                             [seen |-> seen, q |-> Tail(q), out |-> out])
     IN /\ seen' = acc.seen
        /\ q' = IF failed THEN Append(acc.q, u) ELSE acc.q
        /\ out' = acc.out
        /\ visitLog' = IF failed THEN visitLog ELSE Append(visitLog, u)
  /\ UNCHANGED <<crawlArgs, crPc, registrable, browserOpen, crResult, openPages>>

\* one iteration of the loop: take u from the queue, fetch or render it, and
\* handle every href found. In a rendered crawl the page handle is closed after
\* the extraction; a throw before that leaves the loop body through catch {}.
CrawlVisit ==
  /\ crPc = "loop"
  /\ CrawlContinues
  /\ LET u == Head(q)
         base == ParseUrl(u)[1]
         acc == ProcessHrefs(CollectedHrefs(u), base,
                             [seen |-> seen, q |-> Tail(q), out |-> out])
     IN /\ seen' = acc.seen
        /\ q' = acc.q
        /\ out' = acc.out
        /\ visitLog' = Append(visitLog, u)
        /\ openPages' = IF crOpts.render /\ PageAt(u).fetch = "fail"
                        THEN openPages + 1 ELSE openPages
  /\ UNCHANGED <<crawlArgs, crPc, registrable, browserOpen, crResult>>

\* if (browser) await browser.close(); return Array.from(new Set(out))
CrawlReturn ==
  /\ crPc = "loop"
  /\ ~CrawlContinues
  /\ browserOpen' = FALSE
  /\ openPages' = 0
  /\ crResult' = Def(SetAddAll(<<>>, out))
  /\ crPc' = "done"
  /\ UNCHANGED <<crawlArgs, registrable, seen, out, q, visitLog>>

CrawlIdle ==
  /\ crPc = "idle"
  /\ registrable = <<>>
  /\ seen = {}
  /\ out = <<>>
  /\ q = <<>>
  /\ browserOpen = FALSE
  /\ openPages = 0
  /\ visitLog = <<>>
  /\ crResult = Undef

(***************************************************************************)
(* The sites the resolver is run against                                   *)
(***************************************************************************)
MaxCap == 2

SiteOrigin == <<"https", ":", "//example.com">>
SmF == FallbackSitemap(SiteOrigin)
SmA == SiteOrigin \o <<"/sm-a.xml">>
SmB == SiteOrigin \o <<"/sm-b.xml">>
SitemapUrls == {SmF, SmA, SmB}

SiteHost == <<"example", "com">>
PageA == Url("https", SiteHost, "/a", "", "", "")
PageB == Url("https", SiteHost, "/b", "", "", "")
PageC == Url("https", SiteHost, "/c", "html", "", "")
Logo == Url("https", SiteHost, "/logo", "PNG", "", "")

\* robots.txt bodies
RobotsBlockAll == <<"User-agent", ":", " ", "*", "\n", "Disallow", ":", " ", "/">>
RobotsBlockAllCrlf ==
  <<"User-agent", ":", "*", "\r", "\n", "DISALLOW", " ", ":", "/", " ", "\r", "\n",
    "Disallow", ":", " ", "/private">>
RobotsOne == <<"Sitemap", ":", " ">> \o SmA
RobotsDup ==
  <<"#", " ", "Sitemap", ":", " ">> \o SmB \o <<"\n", "\n", "Sitemap", ":", " ">> \o SmA
  \o <<"\r", "\n", "sitemap", ":">> \o SmA \o <<" ", "\n", "Disallow", ":", " ", "/private">>
RobotsTwo ==
  <<" ", "SITEMAP", " ", ":">> \o SmB \o <<"\n", "Sitemap", ":", " ">> \o SmA
  \o <<"\n", "DISALLOW", " ", ":", " ", "/", " ">>
RobotsNoColon == <<"Sitemap", " ">> \o SmA \o <<"\n", "Disallow", ":">>
RobotsTexts == {<<>>, RobotsBlockAll, RobotsOne, RobotsDup, RobotsTwo, RobotsNoColon}

\* the responses to GET /robots.txt: not ok (or a failed fetch), or ok with a body
RobotsResponses ==
  {[ok |-> FALSE, text |-> <<>>], [ok |-> FALSE, text |-> RobotsOne]}
  \cup {[ok |-> TRUE, text |-> t] : t \in RobotsTexts}

\* the documents a sitemap URL may serve
IndexDocs ==
  {[kind |-> "index", locs |-> l] :
     l \in {<<SmA, SmB>>, <<SmB, <<>>, SmF>>, <<SmB, SmB, SmA>>}}
UrlsetDocs ==
  {[kind |-> "urlset", locs |-> l] :
     l \in {<<Loc("canon", PageA), Loc("canon", PageB)>>,
            <<Loc("alt", PageA), Loc("canon", Logo), Loc("canon", PageC)>>,
            <<Loc("invalid", PageA), Loc("empty", PageA), Loc("canon", PageB),
              Loc("canon", PageC), Loc("canon", PageA)>>}}
SitemapDocs == {NoDoc, [kind |-> "bad", locs |-> <<>>]} \cup IndexDocs \cup UrlsetDocs

\* the sitemap URLs a run can come to fetch on a site
CandidatesOf(o, r) ==
  LET c == IF r.ok THEN parseRobotsTxt(r.text).sitemaps ELSE <<>>
  IN IF Len(c) = 0 THEN <<FallbackSitemap(o)>> ELSE c

RECURSIVE Closure(_, _)
Closure(d, set) ==
  LET more == set \cup UNION {Range(d[u].locs) \cap DOMAIN d :
                               u \in {x \in set \cap DOMAIN d : d[x].kind = "index"}}
  IN IF more = set THEN set ELSE Closure(d, more)

\* A site: robots.txt and the sitemap documents; a sitemap URL that nothing
\* leads to serves nothing.
SiteInit ==
  /\ origin = SiteOrigin
  /\ cap \in 1..MaxCap
  /\ robots \in RobotsResponses
  /\ docs \in [SitemapUrls -> SitemapDocs]
  /\ \A u \in SitemapUrls :
       u \notin Closure(docs, Range(CandidatesOf(origin, robots))) => docs[u] = NoDoc

SiteIdle ==
  /\ origin = SiteOrigin
  /\ cap = 1
  /\ robots = [ok |-> FALSE, text |-> <<>>]
  /\ docs = [u \in SitemapUrls |-> NoDoc]

(***************************************************************************)
(* Claims about getSitemapDeep                                             *)
(***************************************************************************)
NoDuplicates(seq) == \A i, j \in 1..Len(seq) : i # j => seq[i] # seq[j]

\* the sitemap URLs the candidates lead to on this site
ReachableSitemaps == Closure(docs, Range(CandidatesOf(origin, robots)))

\* The steps a run can take at most: the robots.txt step, one per candidate,
\* one per child of every sitemap index and one for the return of each index,
\* and the return.
SitemapStepBound ==
  LET idx == {u \in SitemapUrls : docs[u].kind = "index"}
      RECURSIVE Sum(_)
      Sum(set) == IF set = {} THEN 0
                  ELSE LET u == CHOOSE x \in set : TRUE
                       IN Len(docs[u].locs) + 1 + Sum(set \ {u})
  IN 2 + Len(CandidatesOf(origin, robots)) + Sum(idx)

\* a running call has a next step
SitemapCanStep ==
  \/ smPc = "robots"
  \/ smPc = "loop" /\ stack # <<>>
  \/ smPc = "loop" /\ stack = <<>> /\ (CandidatesEnd \/ cI \in 1..Len(candidates))

\* C1: on every site, cyclic sitemap trees and robots.txt files that repeat a
\* sitemap included, a run of getSitemapDeep fetches no sitemap URL twice, takes
\* a bounded number of steps and is never stuck before its return.
C1_TerminatesFetchingOnce ==
  /\ NoDuplicates(fetchLog)
  /\ smSteps <= SitemapStepBound
  /\ smPc \in {"robots", "loop"} => SitemapCanStep

\* a finished run on a site where robots.txt lists sm-a twice, sm-a lists sm-b
\* and sm-b lists sm-a, and both were fetched
C1_Witness ==
  /\ smPc = "done"
  /\ candidates = <<SmA, SmA>>
  /\ docs[SmA].kind = "index" /\ SmB \in Range(docs[SmA].locs)
  /\ docs[SmB].kind = "index" /\ SmA \in Range(docs[SmB].locs)
  /\ {SmA, SmB} \subseteq Range(fetchLog)

\* C10: a second run with the same origin and cap against the unchanged site
\* returns the same set of found URLs as the first, also when the cap cuts the
\* traversal short.
C10_SameUrlSet ==
  (smPc = "done" /\ smRun = 2) => Range(smResult[1].urls) = Range(smFirst[1].urls)

\* a second run has returned on a site where the cap left a sitemap unfetched
C10_Witness ==
  /\ smPc = "done" /\ smRun = 2
  /\ Len(smResult[1].urls) = cap
  /\ \E u \in ReachableSitemaps : docs[u].kind = "urlset" /\ u \notin Range(fetchLog)

(***************************************************************************)
(* The sites and options crawlInternal is run with                         *)
(***************************************************************************)
MaxPages == 3

PathNames == <<"/p01", "/p02", "/p03", "/p04", "/p05", "/p06", "/p07",
               "/p08", "/p09", "/p10", "/p11", "/p12", "/p13">>
P(i) == Url("https", SiteHost, PathNames[i], "", "", "")
WwwHost == <<"www", "example", "com">>
W4 == Url("https", WwwHost, "/p04", "", "", "")
OtherSite == Url("https", <<"other", "org">>, "/x", "", "", "")
LookalikeSite == Url("https", <<"example", "com", "evil", "org">>, "/p02", "", "", "")
PrefixSite == Url("http", <<"notexample", "com">>, "/p02", "", "", "")
Mailto == Url("mailto", <<>>, "info@example.com", "", "", "")
BadHref == Loc("invalid", P(1))
EmptyHref == Loc("empty", P(1))

\* the href lists of the pages
MixedHrefs ==
  <<Loc("rel", P(2)), Loc("canon", [P(3) EXCEPT !.query = "?x=1", !.hash = "#s"]),
    Loc("alt", W4), Loc("canon", OtherSite), Loc("canon", LookalikeSite),
    Loc("alt", PrefixSite), Loc("canon", Mailto), BadHref, EmptyHref,
    Loc("rel", Logo), Loc("canon", P(1))>>
FanHrefs == [i \in 1..12 |-> Loc("rel", P(i + 1))]
BackHrefs == <<Loc("canon", P(1)), Loc("rel", P(3)), Loc("canon", OtherSite)>>
NextHrefs == <<Loc("rel", P(2))>>
SectionHrefs == <<Loc("rel", [P(2) EXCEPT !.hash = "#top"]), Loc("rel", P(5))>>

Html(hrefs) ==
  [fetch |-> "ok", status |-> 200, html |-> TRUE, metaNoindex |-> FALSE,
   xRobotsNoindex |-> FALSE, hrefs |-> hrefs]
NotHtml == [Html(<<>>) EXCEPT !.html = FALSE]

Webs ==
  {[k \in {P(1), P(2), P(3), W4} |->
      CASE k = P(1) -> p1 [] k = P(2) -> p2 [] k = P(3) -> p3 [] OTHER -> Html(<<Loc("rel", P(6))>>)] :
    p1 \in {Html(MixedHrefs), Html(FanHrefs), Html(NextHrefs), Html(<<>>), NotHtml,
           FailedPage},
    p2 \in {Html(BackHrefs), FailedPage},
    p3 \in {Html(SectionHrefs), Html(<<>>)}}

SeedLists ==
  {<<>>,
   <<Loc("alt", P(1))>>,
   <<Loc("canon", OtherSite), BadHref, Loc("alt", P(2))>>,
   [i \in 1..7 |-> Loc("canon", P(i + 1))],
   <<Loc("canon", Logo)>>,
   <<Loc("canon", [P(2) EXCEPT !.query = "?x=1", !.hash = "#s"])>>,
   <<Loc("canon", P(1))>>}

CrawlOptions ==
  [maxPages : 1..MaxPages, includeParams : BOOLEAN, render : BOOLEAN,
   keepHashSections : BOOLEAN, seeds : SeedLists,
   includePatterns : {<<>>, <<"(", "/p02", "/p03">>},
   excludePatterns : {<<>>, <<"/p03">>}]

CrawlInit ==
  /\ crStart = Loc("alt", P(1))
  /\ crOpts \in CrawlOptions
  /\ web \in Webs

CrawlArgsIdle ==
  /\ crStart = Loc("alt", P(1))
  /\ crOpts = [maxPages |-> 1, includeParams |-> FALSE, render |-> FALSE,
               keepHashSections |-> FALSE, seeds |-> <<>>,
               includePatterns |-> <<>>, excludePatterns |-> <<>>]
  /\ web = [k \in {} |-> FailedPage]

(***************************************************************************)
(* analyzeSinglePage, lightweightSampleAnalyze, findingsForQuickPage,      *)
(* probeCommonPaths                                                        *)
(***************************************************************************)
\* the text of u.host
HostText(host) ==
  CASE host = <<"example", "com">> -> "//example.com"
    [] host = <<"www", "example", "com">> -> "//www.example.com"
    [] OTHER -> "//other"

\* normOrigin(input): `${u.protocol}//${u.host}`
normOrigin(input) ==
  LET u == ParseUrl(input)[1] IN <<u.scheme, ":", HostText(u.host)>>

\* href.toString(): the normalised spelling of a URL
Href(u) == Loc("canon", u)

RECURSIVE Hrefs(_)
Hrefs(us) == IF us = <<>> THEN <<>> ELSE <<Href(Head(us))>> \o Hrefs(Tail(us))

IndexableUpTo400(status, metaNoindex, xRobotsNoindex) ==
  status >= 200 /\ status <= 400 /\ ~metaNoindex /\ ~xRobotsNoindex

\* indexable = status >= 200 && status < 400 && !metaNoindex && !xRobotsNoindex
Indexable(status, metaNoindex, xRobotsNoindex) ==
  status >= 200 /\ status < 400 /\ ~metaNoindex /\ ~xRobotsNoindex

\* analyzeSinglePage(url): { error } where the navigation fails, else the
\* analysis: the final URL, the status and the indexable flag
analyzeSinglePage(url) ==
  IF ParseUrl(url) = Undef \/ PageAt(url).fetch = "fail"
  THEN [error |-> TRUE, finalUrl |-> url, status |-> 0, indexable |-> FALSE]
  ELSE LET page == PageAt(url)
       IN [error |-> FALSE,
           finalUrl |-> Href(ParseUrl(url)[1]),
           status |-> page.status,
           indexable |-> Indexable(page.status, page.metaNoindex, page.xRobotsNoindex)]

VARIABLES
  selectorThrows  \* $('link[rel="alternate"][hreflang"]') throws in this build

\* lightweightSampleAnalyze(url): url, ok and, where a response came, its status
lightweightSampleAnalyze(url) ==
  IF ParseUrl(url) = Undef \/ PageAt(url).fetch = "fail"
  THEN [url |-> url, ok |-> FALSE, status |-> Undef]
  ELSE LET page == PageAt(url)
       IN IF page.status < 200 \/ page.status > 299
          THEN [url |-> url, ok |-> FALSE, status |-> Def(page.status)]
          ELSE IF ~page.html THEN [url |-> url, ok |-> FALSE, status |-> Def(page.status)]
          ELSE IF selectorThrows THEN [url |-> url, ok |-> FALSE, status |-> Undef]
          ELSE [url |-> url, ok |-> TRUE, status |-> Def(page.status)]

\* mkFinding(url, category, location, status, issue, ...)
mkFinding(url, status, issue) == [url |-> url, status |-> status, issue |-> issue]

\* findingsForQuickPage(p). The pages of the sites here trigger none of the
\* content rules that apply to a page that is ok.
findingsForQuickPage(p) ==
  IF ~p.ok
  THEN IF p.status # Undef /\ (p.status[1] < 200 \/ p.status[1] >= 400)
       THEN <<mkFinding(p.url, "Fehler", "HTTP-Status")>>
       ELSE <<>>
  ELSE <<>>

\* the findings of lightweightSampleAnalyze and findingsForQuickPage over a list
RECURSIVE QuickFindings(_)
QuickFindings(us) ==
  IF us = <<>> THEN <<>>
  ELSE findingsForQuickPage(lightweightSampleAnalyze(Head(us))) \o QuickFindings(Tail(us))

\* the pages of a list whose quick analysis is ok
RECURSIVE QuickOk(_)
QuickOk(us) ==
  IF us = <<>> THEN <<>>
  ELSE (IF lightweightSampleAnalyze(Head(us)).ok THEN <<Head(us)>> ELSE <<>>)
       \o QuickOk(Tail(us))

\* the candidates of probeCommonPaths: each path, and the path with a slash
CommonPaths ==
  <<"/geo", "/geo/", "/leistungen", "/leistungen/", "/service", "/service/",
    "/kontakt", "/kontakt/", "/impressum", "/impressum/", "/datenschutz",
    "/datenschutz/", "/faq", "/faq/", "/standorte", "/standorte/", "/ueber-uns",
    "/ueber-uns/", "/portfolio", "/portfolio/", "/cases", "/cases/", "/blog",
    "/blog/", "/news", "/news/">>

\* probeCommonPaths(origin) for the origin of URL u
probeCommonPaths(u) ==
  SetAddAll(<<>>,
            QuickOk([i \in 1..Len(CommonPaths) |->
                       Href(Url(u.scheme, u.host, CommonPaths[i], "", "", ""))]))

(***************************************************************************)
(* POST /api/analyze and runJob                                            *)
(***************************************************************************)
VARIABLES
  jUrl,          \* data.url
  jOpts,         \* the parsed body: the options of the job
  jPc,           \* where runJob stands
  jStatus,       \* jobs.get(jobId).status ("none" before the job is created)
  jProgress,     \* jobs.get(jobId).progress
  jError,        \* jobs.get(jobId).error
  jResult,       \* jobs.get(jobId).result
  jLogs,         \* jobs.get(jobId).logs: the messages
  main,          \* const main
  sm,            \* const sm, every property that is present wrapped by Def
  manualSeeds,   \* let manualSeeds
  allUrls,       \* const allUrls
  findings,      \* const findings
  deepTargets,   \* const deepTargets
  dI             \* let i of the loop over deepTargets

jobArgs == <<jUrl, jOpts, selectorThrows>>
jobVars == <<jPc, jStatus, jProgress, jError, jResult, jLogs, main, sm, manualSeeds,
             allUrls, findings, deepTargets, dI>>

\* main.finalUrl || url
MainUrl == main[1].finalUrl

\* app.post("/api/analyze"): the job is created queued and runJob is started
JobSubmit ==
  /\ jStatus = "none"
  /\ jStatus' = "queued"
  /\ jProgress' = 0
  /\ jPc' = "start"
  /\ UNCHANGED <<jobArgs, jError, jResult, jLogs, main, sm, manualSeeds, allUrls,
                 findings, deepTargets, dI>>

\* set({ status: "running", progress: 2 }); log "Job started"
JobStart ==
  /\ jPc = "start"
  /\ jStatus' = "running"
  /\ jProgress' = 2
  /\ jLogs' = Append(jLogs, "Job started")
  /\ jPc' = "main"
  /\ UNCHANGED <<jobArgs, jError, jResult, main, sm, manualSeeds, allUrls, findings,
                 deepTargets, dI>>

JobFailsSilently(message) ==
  /\ jStatus' = jStatus
  /\ jError' = Def(message)
  /\ jLogs' = jLogs
  /\ jPc' = "failed"

JobFailsThenDeep(message) ==
  /\ jStatus' = "error"
  /\ jError' = Def(message)
  /\ jLogs' = jLogs
  /\ jPc' = "deep"

JobFailsAndEscapes(message) ==
  /\ jStatus' = jStatus
  /\ jError' = jError
  /\ jLogs' = jLogs
  /\ jPc' = "end"

\* catch (e): set({ status: "error", error: e.message }); the call of log that
\* follows is JobEndLog
JobFails(message) ==
  /\ jStatus' = "error"
  /\ jError' = Def(message)
  /\ jLogs' = jLogs
  /\ jPc' = "failed"

\* 1) main = await analyzeSinglePage(url); if (main.error) throw
JobMain ==
  /\ jPc = "main"
  /\ LET m == analyzeSinglePage(jUrl)
     IN /\ main' = Def(m)
        /\ IF m.error
           THEN JobFails("Navigation failed") /\ UNCHANGED jProgress
           ELSE /\ jProgress' = 18
                /\ jPc' = "sitemap"
                /\ UNCHANGED <<jStatus, jError, jLogs>>
  /\ UNCHANGED <<jobArgs, jResult, sm, manualSeeds, allUrls, findings, deepTargets, dI>>

\* the value of sm where sitemap seeding is off
NoSitemapSeeding ==
  [robotsTxtFound |-> Undef, sitemapFound |-> Undef, sitemapCandidates |-> Undef,
   urls |-> Def(<<>>), disallow |-> Def(<<>>), broadBlock |-> Undef,
   sitemapListedInRobots |-> Def(FALSE)]

\* 2) seedSitemap is on: getSitemapDeep(origin, Math.max(maxSamplePages, maxCrawlPages))
JobSitemapCall ==
  /\ jPc = "sitemap"
  /\ jOpts.seedSitemap
  /\ origin' = normOrigin(MainUrl)
  /\ cap' = Max(jOpts.maxSamplePages, jOpts.maxCrawlPages)
  /\ SitemapStart
  /\ jPc' = "sitemapWait"
  /\ UNCHANGED <<robots, docs, smRun, smFirst>>
  /\ UNCHANGED <<jobArgs, jStatus, jProgress, jError, jResult, jLogs, main, sm,
                 manualSeeds, allUrls, findings, deepTargets, dI>>

\* 2) and 3): sm is there; main.flags of the sitemap; the manual and the guessed
\* seeds. Where crawl is on, the arguments of crawlInternal are put together.
JobSeeds ==
  /\ \/ jPc = "sitemap" /\ ~jOpts.seedSitemap
     \/ jPc = "sitemapWait" /\ smPc = "done"
  /\ LET r == smResult[1]
         smNow == IF jOpts.seedSitemap
                  THEN [robotsTxtFound |-> Def(r.robotsTxtFound),
                        sitemapFound |-> Def(r.sitemapFound),
                        sitemapCandidates |-> Def(r.sitemapCandidates),
                        urls |-> Def(Hrefs(r.urls)),
                        disallow |-> Def(r.disallow),
                        broadBlock |-> Def(r.broadBlock),
                        sitemapListedInRobots |-> Def(r.sitemapListedInRobots)]
                  ELSE NoSitemapSeeding
         guessed == IF jOpts.guessCommonPaths
                    THEN probeCommonPaths(ParseUrl(MainUrl)[1]) ELSE <<>>
         seeds == SetAddAll(<<>>, jOpts.extraSeeds \o guessed)
     IN /\ sm' = smNow
        /\ main' = Def([robotsTxtFound |-> Truthy(smNow.robotsTxtFound),
                         sitemapFound |-> Truthy(smNow.sitemapFound),
                         sitemapListedInRobots |-> Truthy(smNow.sitemapListedInRobots)]
                        @@ main[1])
        /\ manualSeeds' = seeds
        /\ crStart' = IF jOpts.crawl THEN MainUrl ELSE crStart
        /\ crOpts' = IF jOpts.crawl
                     THEN [maxPages |-> jOpts.maxCrawlPages,
                           includeParams |-> jOpts.includeParams,
                           render |-> jOpts.renderCrawl,
                           keepHashSections |-> jOpts.keepHashSections,
                           seeds |-> seeds,
                           includePatterns |-> jOpts.includePatterns,
                           excludePatterns |-> jOpts.excludePatterns]
                     ELSE crOpts
  /\ jPc' = "discover"
  /\ UNCHANGED <<jobArgs, jStatus, jProgress, jError, jResult, jLogs, allUrls, findings,
                 deepTargets, dI, web, crawlVars>>

\* 4) crawl is on: crawlInternal(main.finalUrl || url, {...})
JobCrawlCall ==
  /\ jPc = "discover"
  /\ jOpts.crawl
  /\ CrawlCall
  /\ jPc' = "crawlWait"
  /\ UNCHANGED <<jobArgs, jStatus, jProgress, jError, jResult, jLogs, main, sm,
                 manualSeeds, allUrls, findings, deepTargets, dI>>

\* array.slice(0, n)
Slice(seq, n) == SubSeq(seq, 1, Min(n, Len(seq)))

\* the filter of deepTargets: not the main URL, not an asset path
RECURSIVE DeepFilter(_, _)
DeepFilter(us, mainUrl) ==
  IF us = <<>> THEN <<>>
  ELSE (IF Head(us) # mainUrl /\ ~IsAssetPath(ParseUrl(Head(us))[1])
        THEN <<Head(us)>> ELSE <<>>)
       \o DeepFilter(Tail(us), mainUrl)

\* 4) allUrls = the sitemap URLs, the seeds and, where crawl is on, the crawl list
JobDiscovered ==
  /\ \/ jPc = "discover" /\ ~jOpts.crawl
     \/ jPc = "crawlWait" /\ crPc = "done"
  /\ allUrls' = SetAddAll(<<>>, sm.urls[1] \o manualSeeds
                                \o (IF jOpts.crawl THEN crResult[1] ELSE <<>>))
  /\ jProgress' = 48
  /\ jPc' = "sample"
  /\ UNCHANGED <<jobArgs, jStatus, jError, jResult, jLogs, main, sm, manualSeeds,
                 findings, deepTargets, dI>>

\* 5) the sitemap sample and the light analysis of allUrls, with their findings;
\* then deepTargets
JobSample ==
  /\ jPc = "sample"
  /\ findings' =
       (IF jOpts.sampleSitemap /\ Len(sm.urls[1]) > 0
        THEN QuickFindings(Slice(sm.urls[1], jOpts.maxSamplePages)) ELSE <<>>)
       \o QuickFindings(Slice(allUrls, Min(jOpts.maxCrawlPages, Len(allUrls))))
  /\ jProgress' = 74
  /\ deepTargets' = Slice(DeepFilter(allUrls, MainUrl), jOpts.deepAnalyzeLimit)
  /\ dI' = 0
  /\ jPc' = "deep"
  /\ UNCHANGED <<jobArgs, jStatus, jError, jResult, jLogs, main, sm, manualSeeds, allUrls>>

DeepProgressDown(i, n) == (20 \div Max(1, n)) - i

\* Math.round(((i + 1) / Math.max(1, n)) * 20)
DeepProgress(i, n) == (40 * (i + 1) + Max(1, n)) \div (2 * Max(1, n))

\* 6) one deep target: d = await analyzeSinglePage(u), then d.flags.indexable
\* and the other properties of d are read. Where the navigation failed d is
\* { error } and reading d.flags.indexable throws a TypeError.
JobDeep ==
  /\ jPc = "deep"
  /\ dI < Len(deepTargets)
  /\ LET u == deepTargets[dI + 1]
         d == analyzeSinglePage(u)
     IN IF d.error
        THEN /\ JobFails("TypeError")
             /\ UNCHANGED <<jProgress, findings, dI>>
        ELSE /\ findings' =
                  findings \o (IF ~d.indexable
                               THEN <<mkFinding(u, "Fehler", "Nicht indexierbar (Status/robots)")>>
                               ELSE <<>>)
             /\ jProgress' = 74 + DeepProgress(dI, Len(deepTargets))
             /\ dI' = dI + 1
             /\ UNCHANGED <<jStatus, jError, jLogs, jPc>>
  /\ UNCHANGED <<jobArgs, jResult, main, sm, manualSeeds, allUrls, deepTargets>>

\* 7) the issues of the main page that follow from the status, the robots marks
\* and robots.txt
MainIssues ==
  (IF ~main[1].indexable THEN <<"Seite ist vermutlich nicht indexierbar (Status/robots).">>
   ELSE <<>>)
  \o (IF Truthy(sm.broadBlock)
      THEN <<"robots.txt blockiert breitflaechig (Disallow: /) - pruefen.">> ELSE <<>>)

\* const result
JobResult ==
  [requestedUrl |-> jUrl,
   main |-> main[1],
   robots |-> [found |-> Truthy(sm.robotsTxtFound),
               disallow |-> sm.disallow,
               broadBlock |-> sm.broadBlock,
               sitemapListedInRobots |-> Truthy(sm.sitemapListedInRobots)],
   sitemap |-> [found |-> Truthy(sm.sitemapFound),
                candidates |-> IF sm.sitemapCandidates = Undef THEN <<>>
                               ELSE sm.sitemapCandidates[1],
                sampleCount |-> Min(jOpts.maxSamplePages, Len(sm.urls[1]))],
   discoveredCount |-> Len(allUrls),
   findings |-> findings,
   issues |-> MainIssues]

\* set({ status: "done", progress: 100, result }); the call of log that follows
\* is JobEndLog
JobFinish ==
  /\ jPc = "deep"
  /\ dI >= Len(deepTargets)
  /\ jStatus' = "done"
  /\ jProgress' = 100
  /\ jResult' = Def(JobResult)
  /\ jPc' = "finished"
  /\ UNCHANGED <<jobArgs, jError, jLogs, main, sm, manualSeeds, allUrls, findings,
                 deepTargets, dI>>

\* log(jobId, "info", "Job finished") after set({ status: "done", ... }), and
\* log(jobId, "error", "Job failed", ...) after set({ status: "error", ... }):
\* j.logs.push(entry) on the record of the job
JobEndLog ==
  /\ jPc \in {"finished", "failed"}
  /\ jLogs' = Append(jLogs, IF jPc = "finished" THEN "Job finished" ELSE "Job failed")
  /\ jPc' = "end"
  /\ UNCHANGED <<jobArgs, jStatus, jProgress, jError, jResult, main, sm, manualSeeds,
                 allUrls, findings, deepTargets, dI>>

JobIdle ==
  /\ jPc = "idle"
  /\ jStatus = "none"
  /\ jProgress = 0
  /\ jError = Undef
  /\ jResult = Undef
  /\ jLogs = <<>>
  /\ main = Undef
  /\ sm = NoSitemapSeeding
  /\ manualSeeds = <<>>
  /\ allUrls = <<>>
  /\ findings = <<>>
  /\ deepTargets = <<>>
  /\ dI = 0

(***************************************************************************)
(* The jobs that are run                                                   *)
(***************************************************************************)
Kontakt == Url("https", SiteHost, "/kontakt", "", "", "")
NotFound(hrefs) == [Html(hrefs) EXCEPT !.status = 404]
MetaNoindex(hrefs) == [Html(hrefs) EXCEPT !.metaNoindex = TRUE]
HeaderNoindex(hrefs) == [Html(hrefs) EXCEPT !.xRobotsNoindex = TRUE]

JobWebs ==
  {[k \in {P(1), P(2), Kontakt} |->
      CASE k = P(1) -> p1 [] k = P(2) -> p2 [] OTHER -> Html(<<>>)] :
    p1 \in {Html(<<Loc("rel", P(2))>>), NotFound(<<Loc("rel", P(2))>>),
            MetaNoindex(<<>>), FailedPage},
    p2 \in {Html(<<>>), HeaderNoindex(<<>>), NotFound(<<>>), FailedPage}}

JobOptions ==
  [seedSitemap : BOOLEAN, sampleSitemap : BOOLEAN, maxSamplePages : {1, 2},
   crawl : BOOLEAN, renderCrawl : {FALSE}, maxCrawlPages : {1, 3},
   deepAnalyzeLimit : {0, 2}, keepHashSections : {TRUE}, includeParams : {FALSE},
   extraSeeds : {<<>>, <<Loc("alt", P(2))>>},
   includePatterns : {<<>>}, excludePatterns : {<<DEFAULT_EXCLUDE>>},
   guessCommonPaths : BOOLEAN]

\* robots.txt and the sitemaps of the sites the jobs run against
JobSitemaps ==
  {[robots |-> [ok |-> FALSE, text |-> <<>>], docs |-> [u \in SitemapUrls |-> NoDoc]],
   [robots |-> [ok |-> TRUE, text |-> RobotsBlockAll], docs |-> [u \in SitemapUrls |-> NoDoc]],
   [robots |-> [ok |-> TRUE, text |-> RobotsBlockAll],
    docs |-> [u \in SitemapUrls |->
                IF u = SmF
                THEN [kind |-> "urlset", locs |-> <<Loc("alt", P(1)), Loc("canon", P(2))>>]
                ELSE NoDoc]],
   [robots |-> [ok |-> TRUE, text |-> RobotsBlockAllCrlf],
    docs |-> [u \in SitemapUrls |->
                CASE u = SmF -> [kind |-> "index", locs |-> <<SmB>>]
                  [] u = SmB -> [kind |-> "urlset", locs |-> <<Loc("canon", P(2))>>]
                  [] OTHER -> NoDoc]],
   [robots |-> [ok |-> TRUE, text |-> RobotsOne],
    docs |-> [u \in SitemapUrls |->
                CASE u = SmA -> [kind |-> "index", locs |-> <<SmB, SmA>>]
                  [] u = SmB -> [kind |-> "urlset",
                                 locs |-> <<Loc("canon", P(2)), Loc("canon", P(3)),
                                            Loc("canon", P(1))>>]
                  [] OTHER -> NoDoc]]}

JobInit ==
  /\ jUrl = Loc("alt", P(1))
  /\ jOpts \in JobOptions
  /\ selectorThrows \in BOOLEAN
  /\ web \in JobWebs
  /\ crStart = Loc("alt", P(1))
  /\ crOpts = [maxPages |-> 1, includeParams |-> FALSE, render |-> FALSE,
               keepHashSections |-> FALSE, seeds |-> <<>>,
               includePatterns |-> <<>>, excludePatterns |-> <<>>]
  /\ origin = SiteOrigin
  /\ cap = 1
  /\ \E w \in JobSitemaps : robots = w.robots /\ docs = w.docs

JobArgsIdle ==
  /\ jUrl = Loc("alt", P(1))
  /\ jOpts = [seedSitemap |-> FALSE, sampleSitemap |-> FALSE, maxSamplePages |-> 1,
              crawl |-> FALSE, renderCrawl |-> FALSE, maxCrawlPages |-> 1,
              deepAnalyzeLimit |-> 0, keepHashSections |-> FALSE,
              includeParams |-> FALSE, extraSeeds |-> <<>>, includePatterns |-> <<>>,
              excludePatterns |-> <<>>, guessCommonPaths |-> FALSE]
  /\ selectorThrows = FALSE

(***************************************************************************)
(* The job store with several jobs                                         *)
(***************************************************************************)
VARIABLES
  jobs,   \* const jobs = new Map(): jobId -> { status, progress, result, error, logs }
  runs    \* for every jobId, where its runJob stands: pc, the number of deep
          \* targets and the index i of the deep loop

storeVars == <<jobs, runs>>

MaxJobs == 2
MaxTargets == 2
JobIds == 1..MaxJobs

SetAllJobs(store, id, patch) == [k \in DOMAIN store |-> patch @@ store[k]]

\* set(patch) of runJob(jobId, ...): jobs.set(jobId, { ...cur, ...patch })
SetJob(store, id, patch) ==
  IF id \in DOMAIN store THEN [store EXCEPT ![id] = patch @@ store[id]]
  ELSE (id :> patch) @@ store

\* log(jobId, level, msg): if the job is in the store, push onto its logs
LogJob(store, id, msg) ==
  IF id \in DOMAIN store THEN [store EXCEPT ![id].logs = Append(@, msg)] ELSE store

NotRunning == [pc |-> "none", n |-> 0, i |-> 0]

\* app.post("/api/analyze"): jobs.set(jobId, { status: "queued", progress: 0, logs: [] })
\* for a fresh jobId, and runJob is started
StoreSubmit(id) ==
  /\ id \notin DOMAIN jobs
  /\ jobs' = (id :> [status |-> "queued", progress |-> 0, result |-> Undef,
                     error |-> Undef, logs |-> <<>>]) @@ jobs
  /\ runs' = [runs EXCEPT ![id].pc = "start"]

\* set({ status: "running", progress: 2 }); log "Job started"
RunStart(id) ==
  /\ runs[id].pc = "start"
  /\ jobs' = LogJob(SetJob(jobs, id, [status |-> "running", progress |-> 2]), id,
                    "Job started")
  /\ runs' = [runs EXCEPT ![id].pc = "main"]

\* catch (e): set({ status: "error", error: e.message })
RunFails(id, message) ==
  /\ jobs' = SetJob(jobs, id, [status |-> "error", error |-> Def(message)])
  /\ runs' = [runs EXCEPT ![id].pc = "failed"]

\* main = await analyzeSinglePage(url): the navigation fails, or set({ progress: 18 })
RunMain(id) ==
  /\ runs[id].pc = "main"
  /\ \E failed \in BOOLEAN :
       IF failed THEN RunFails(id, "Navigation failed")
       ELSE /\ jobs' = SetJob(jobs, id, [progress |-> 18])
            /\ runs' = [runs EXCEPT ![id].pc = "discover"]

\* sitemap, seeds and crawl; set({ progress: 48 })
RunDiscovered(id) ==
  /\ runs[id].pc = "discover"
  /\ jobs' = SetJob(jobs, id, [progress |-> 48])
  /\ runs' = [runs EXCEPT ![id].pc = "sample"]

\* the samples; set({ progress: 74 }); deepTargets has n entries
RunSample(id) ==
  /\ runs[id].pc = "sample"
  /\ jobs' = SetJob(jobs, id, [progress |-> 74])
  /\ \E n \in 0..MaxTargets : runs' = [runs EXCEPT ![id] = [pc |-> "deep", n |-> n, i |-> 0]]

\* one deep target: reading d.flags throws where the navigation failed, else
\* set({ progress: 74 + ... })
RunDeep(id) ==
  /\ runs[id].pc = "deep"
  /\ runs[id].i < runs[id].n
  /\ \E failed \in BOOLEAN :
       IF failed THEN RunFails(id, "TypeError")
       ELSE /\ jobs' = SetJob(jobs, id,
                              [progress |-> 74 + DeepProgress(runs[id].i, runs[id].n)])
            /\ runs' = [runs EXCEPT ![id].i = @ + 1]

\* set({ status: "done", progress: 100, result })
RunFinish(id) ==
  /\ runs[id].pc = "deep"
  /\ runs[id].i >= runs[id].n
  /\ jobs' = SetJob(jobs, id, [status |-> "done", progress |-> 100, result |-> Def(id)])
  /\ runs' = [runs EXCEPT ![id].pc = "finished"]

\* log "Job finished" or log "Job failed"
RunEndLog(id) ==
  /\ runs[id].pc \in {"finished", "failed"}
  /\ jobs' = LogJob(jobs, id, IF runs[id].pc = "finished" THEN "Job finished"
                              ELSE "Job failed")
  /\ runs' = [runs EXCEPT ![id].pc = "end"]

\* a step of runJob(id, ...)
RunStep(id) ==
  \/ RunStart(id) \/ RunMain(id) \/ RunDiscovered(id) \/ RunSample(id)
  \/ RunDeep(id) \/ RunFinish(id) \/ RunEndLog(id)

StoreIdle ==
  /\ jobs = [k \in {} |-> NotRunning]
  /\ runs = [id \in JobIds |-> NotRunning]

(***************************************************************************)
(* analyzeSinglePage: the response listener of one navigation              *)
(***************************************************************************)
VARIABLES
  observed,    \* the number of response events of the navigation so far
  respCount,   \* let respCount = 0
  bytes,       \* const bytes = { total: 0, img: 0, js: 0, css: 0 }
  bigImages,   \* let bigImages = 0
  pending      \* the listener calls suspended at await res.body(), in the
               \* order in which they were suspended

listenerVars == <<observed, respCount, bytes, bigImages, pending>>

RespCap == 80
BigImageBytes == 500000
MaxResponses == 83
MaxPending == 2

\* the responses of the navigation: the content type, the content-length
\* header as parseInt(h["content-length"] || "0", 10) reads it, whether the
\* URL starts with "data:", and the length of the body where it can be read
BigImage == [ct |-> "image/png", len |-> 600000, data |-> FALSE, body |-> 600000]
Script == [ct |-> "text/javascript", len |-> 0, data |-> FALSE, body |-> 1000]
Style == [ct |-> "text/css", len |-> 0, data |-> TRUE, body |-> 0]
Responses == {BigImage, Script, Style}

\* bytes.total += len || 0, and the same for the one of img, js, css that the
\* content type names
Account(b, r, len) ==
  IF r.ct = "image/png" THEN [b EXCEPT !.total = @ + len, !.img = @ + len]
  ELSE IF r.ct = "text/javascript" THEN [b EXCEPT !.total = @ + len, !.js = @ + len]
  ELSE IF r.ct = "text/css" THEN [b EXCEPT !.total = @ + len, !.css = @ + len]
  ELSE [b EXCEPT !.total = @ + len]

\* if ((len || 0) > 500_000) bigImages++, for an image
BigImagesAfter(n, r, len) ==
  IF r.ct = "image/png" /\ len > BigImageBytes THEN n + 1 ELSE n

\* page.on("response", ...) is called with a response: after the cap it
\* returns; else it counts the response, and either accounts for it at once or
\* is suspended at await res.body()
ResponseArrives ==
  /\ observed < MaxResponses
  /\ \E r \in Responses :
       /\ observed' = observed + 1
       /\ IF respCount > RespCap
            THEN UNCHANGED <<respCount, bytes, bigImages, pending>>
          ELSE /\ respCount' = respCount + 1
               /\ IF r.len = 0 /\ ~r.data
                    THEN /\ Len(pending) < MaxPending
                         /\ pending' = Append(pending, r)
                         /\ UNCHANGED <<bytes, bigImages>>
                  ELSE /\ bytes' = Account(bytes, r, r.len)
                       /\ bigImages' = BigImagesAfter(bigImages, r, r.len)
                       /\ UNCHANGED pending

\* await res.body() of a suspended call returns the body, or throws and the
\* length stays 0; the call goes on to account for the response
BodyReturns ==
  \E k \in 1..Len(pending), read \in BOOLEAN :
    LET r == pending[k]
        len == IF read THEN r.body ELSE 0
    IN /\ pending' = SubSeq(pending, 1, k - 1) \o SubSeq(pending, k + 1, Len(pending))
       /\ bytes' = Account(bytes, r, len)
       /\ bigImages' = BigImagesAfter(bigImages, r, len)
       /\ UNCHANGED <<observed, respCount>>

ListenerInit ==
  /\ observed = 0
  /\ respCount = 0
  /\ bytes = [total |-> 0, img |-> 0, js |-> 0, css |-> 0]
  /\ bigImages = 0
  /\ pending = <<>>

ListenerIdle == ListenerInit

(***************************************************************************)
(* analyzeSinglePage: the status and the indexable flag                    *)
(***************************************************************************)
VARIABLES
  response,     \* what page.goto resolved to: Undef (no response object) or
                \* Def of the status of the response
  robotsMeta,   \* $('meta[name="robots"]').attr("content") || "", letter by letter
  xRobots,      \* headers["x-robots-tag"] || "", letter by letter
  ixPc,         \* "idle", "loaded" (the navigation has resolved), "status", "done"
  status,       \* const status
  indexable     \* const indexable

indexVars == <<response, robotsMeta, xRobots, ixPc, status, indexable>>

\* String.prototype.includes
Includes(s, sub) ==
  \E i \in 1..(Len(s) - Len(sub) + 1) : SubSeq(s, i, i + Len(sub) - 1) = sub

NoindexText == <<"n", "o", "i", "n", "d", "e", "x">>

\* (text || "").toLowerCase().includes("noindex")
HasNoindex(text) == Includes(ToLowerCase(text), NoindexText)

\* the statuses a response can carry, and the contents of a robots meta tag or
\* an X-Robots-Tag header ("" where there is none)
Statuses == {199, 200, 204, 301, 399, 400, 404, 500}
RobotsDirectives ==
  {<<>>,
   <<"i", "n", "d", "e", "x", ",", "f", "o", "l", "l", "o", "w">>,
   <<"n", "o", "n", "e">>,
   NoindexText,
   <<"N", "O", "I", "N", "D", "E", "X">>,
   <<"N", "o", "I", "n", "d", "e", "x", ",", "n", "o", "f", "o", "l", "l", "o", "w">>,
   <<"m", "a", "x", "-", "n", "o", "i", "n", "d", "e", "x", "-", "1">>}

\* const status = response?.status() ?? 0
IndexStatus ==
  /\ ixPc = "loaded"
  /\ status' = IF response = Undef THEN 0 ELSE response[1]
  /\ ixPc' = "status"
  /\ UNCHANGED <<response, robotsMeta, xRobots, indexable>>

\* metaNoindex, xRobotsNoindex and indexable
IndexFlags ==
  /\ ixPc = "status"
  /\ indexable' = Indexable(status, HasNoindex(robotsMeta), HasNoindex(xRobots))
  /\ ixPc' = "done"
  /\ UNCHANGED <<response, robotsMeta, xRobots, status>>

\* a navigation that has resolved, with or without a response object
IndexInit ==
  /\ response \in {Undef} \cup {Def(st) : st \in Statuses}
  /\ robotsMeta \in RobotsDirectives
  /\ xRobots \in RobotsDirectives
  /\ ixPc = "loaded"
  /\ status = 0
  /\ indexable = FALSE

IndexIdle ==
  /\ response = Undef
  /\ robotsMeta = <<>>
  /\ xRobots = <<>>
  /\ ixPc = "idle"
  /\ status = 0
  /\ indexable = FALSE

(***************************************************************************)
(* The JSON-LD blocks of an analysed page and the findings about them      *)
(***************************************************************************)
VARIABLES
  ldScripts,      \* the script[type="application/ld+json"] elements of the page
  ldDeep,         \* TRUE: analyzeSinglePage and the deep loop of runJob;
                  \* FALSE: lightweightSampleAnalyze and findingsForQuickPage
  ldI,            \* the element .each() is at
  jsonLdBlocks,   \* const jsonLdBlocks: the @type of every block that parsed
  jsonLdErrors,   \* const jsonLdErrors (deep analysis only)
  ldPc,           \* "idle", "each", "analysed", "done"
  ldFindings      \* the issues of the findings pushed for the page

jsonLdVars == <<ldScripts, ldDeep, ldI, jsonLdBlocks, jsonLdErrors, ldPc, ldFindings>>

MaxScripts == 3

\* a script element: whether JSON.parse accepts its text, the @type of the
\* block and whether the element is in <head>
LdScripts == [parses : BOOLEAN, type : {"Organization"}, inHead : BOOLEAN]

\* one element of .each(): JSON.parse(raw) is pushed; where it throws, the deep
\* analysis pushes "Invalid JSON-LD: ..." onto jsonLdErrors and the light
\* analysis does nothing
LdEach ==
  /\ ldPc = "each"
  /\ ldI <= Len(ldScripts)
  /\ IF ldScripts[ldI].parses
       THEN /\ jsonLdBlocks' = Append(jsonLdBlocks, ldScripts[ldI].type)
            /\ UNCHANGED jsonLdErrors
     ELSE /\ jsonLdErrors' = IF ldDeep THEN Append(jsonLdErrors, "Invalid JSON-LD")
                             ELSE jsonLdErrors
          /\ UNCHANGED jsonLdBlocks
  /\ ldI' = ldI + 1
  /\ UNCHANGED <<ldScripts, ldDeep, ldPc, ldFindings>>

\* the analysis returns: structuredData: { jsonLdCount, types, errors }
LdReturn ==
  /\ ldPc = "each"
  /\ ldI > Len(ldScripts)
  /\ ldPc' = "analysed"
  /\ UNCHANGED <<ldScripts, ldDeep, ldI, jsonLdBlocks, jsonLdErrors, ldFindings>>

\* const jsonLdInHead = $('head script[type="application/ld+json"]').length
jsonLdInHead == Cardinality({i \in 1..Len(ldScripts) : ldScripts[i].inHead})

\* the findings about JSON-LD that the deep loop of runJob pushes for the page
\* d: !d.flags.jsonLdInHead and !d.flags.hasJSONLD
LdDeepFindings ==
  /\ ldPc = "analysed"
  /\ ldDeep
  /\ ldFindings' = (IF jsonLdInHead = 0 THEN <<"JSON-LD nicht im <head>">> ELSE <<>>)
                   \o (IF Len(jsonLdBlocks) = 0 THEN <<"Kein JSON-LD">> ELSE <<>>)
  /\ ldPc' = "done"
  /\ UNCHANGED <<ldScripts, ldDeep, ldI, jsonLdBlocks, jsonLdErrors>>

\* the finding about JSON-LD that findingsForQuickPage pushes for the sample
\* p: !p.jsonLdCount
LdQuickFindings ==
  /\ ldPc = "analysed"
  /\ ~ldDeep
  /\ ldFindings' = IF Len(jsonLdBlocks) = 0 THEN <<"Kein JSON-LD vorhanden">> ELSE <<>>
  /\ ldPc' = "done"
  /\ UNCHANGED <<ldScripts, ldDeep, ldI, jsonLdBlocks, jsonLdErrors>>

JsonLdInit ==
  /\ ldScripts \in UNION {[1..n -> LdScripts] : n \in 0..MaxScripts}
  /\ ldDeep \in BOOLEAN
  /\ ldI = 1
  /\ jsonLdBlocks = <<>>
  /\ jsonLdErrors = <<>>
  /\ ldPc = "each"
  /\ ldFindings = <<>>

JsonLdIdle ==
  /\ ldScripts = <<>>
  /\ ldDeep = FALSE
  /\ ldI = 1
  /\ jsonLdBlocks = <<>>
  /\ jsonLdErrors = <<>>
  /\ ldPc = "idle"
  /\ ldFindings = <<>>

(***************************************************************************)
(* The title and description rules of the deep and of the light analysis   *)
(***************************************************************************)
VARIABLES
  titleLen,       \* textLen(title) of the page
  metaDescLen,    \* textLen(metaDesc) of the page
  tdPc,           \* "idle", "page", "deep", "done"
  titleGood,      \* const titleGood of analyzeSinglePage
  metaDescGood,   \* const metaDescGood of analyzeSinglePage
  tdFindings      \* the title and description findings of findingsForQuickPage

titleDescVars == <<titleLen, metaDescLen, tdPc, titleGood, metaDescGood, tdFindings>>

MaxTitleLen == 70
MaxDescLen == 185

\* titleGood and metaDescGood of analyzeSinglePage
TitleGood(len) == len >= 30 /\ len <= 65
MetaDescGood(len) == len >= 80 /\ len <= 180

\* the title and description rules of findingsForQuickPage(p) for a page
\* that is ok
QuickTitleFindings(len) ==
  IF len < 50 \/ len > 60 THEN <<"Title ideal 50-60 Zeichen">> ELSE <<>>
QuickDescFindings(len) ==
  IF len = 0 THEN <<"Description fehlt">>
  ELSE IF len < 140 \/ len > 180 THEN <<"Description ideal 140-180 Zeichen">>
  ELSE <<>>

\* the deep analysis of the page sets its flags
TitleDescDeep ==
  /\ tdPc = "page"
  /\ titleGood' = TitleGood(titleLen)
  /\ metaDescGood' = MetaDescGood(metaDescLen)
  /\ tdPc' = "deep"
  /\ UNCHANGED <<titleLen, metaDescLen, tdFindings>>

\* the light analysis of the same page gives its findings
TitleDescQuick ==
  /\ tdPc = "deep"
  /\ tdFindings' = QuickTitleFindings(titleLen) \o QuickDescFindings(metaDescLen)
  /\ tdPc' = "done"
  /\ UNCHANGED <<titleLen, metaDescLen, titleGood, metaDescGood>>

TitleDescInit ==
  /\ titleLen \in 0..MaxTitleLen
  /\ metaDescLen \in 0..MaxDescLen
  /\ tdPc = "page"
  /\ titleGood = FALSE
  /\ metaDescGood = FALSE
  /\ tdFindings = <<>>

TitleDescIdle ==
  /\ titleLen = 0
  /\ metaDescLen = 0
  /\ tdPc = "idle"
  /\ titleGood = FALSE
  /\ metaDescGood = FALSE
  /\ tdFindings = <<>>

\* NEWMODEL
\* every variable of the model
vars == <<headingVars, scoreVars, siteVars, sitemapVars, crawlArgs, crawlVars, jobArgs,
         jobVars,
         storeVars, listenerVars, indexVars, jsonLdVars, titleDescVars>>

(***************************************************************************)
(* Claims about crawlInternal                                              *)
(***************************************************************************)
\* C2: the URL list crawlInternal returns contains at most maxPages URLs.
\* The code does not keep this: out starts as the whole seed list and the href
\* loop appends to out without looking at maxPages.
C2_AtMostMaxPages == crPc = "done" => Len(crResult[1]) <= crOpts.maxPages

\* C2, the run that breaks it: maxPages = 2, no seeds, the start page links to
\* twelve new pages of the site; the crawl returns twelve URLs.
C2_FailingRun ==
  /\ crPc = "done"
  /\ crOpts.maxPages = 2
  /\ crOpts.seeds = <<>>
  /\ Len(visitLog) = 1
  /\ Len(crResult[1]) = 12

\* C3: at every point of a run the seen-set holds at most maxPages * 6 URLs.
\* The code does not keep this: seen starts as the whole seed list, which is
\* not capped.
C3_SeenCapped == Cardinality(seen) <= crOpts.maxPages * 6

\* C3, the run that breaks it: maxPages = 1 and seven seeds on the site; seen
\* holds eight URLs from the start.
C3_FailingRun ==
  /\ crPc = "loop"
  /\ crOpts.maxPages = 1
  /\ Len(crOpts.seeds) = 7
  /\ Cardinality(seen) = 8

\* C4: every URL crawlInternal returns has a host whose last two labels are
\* those of the start URL's host.
C4_SameRegistrableDomain ==
  crPc = "done" =>
    \A i \in 1..Len(crResult[1]) :
      /\ ParseUrl(crResult[1][i]) # Undef
      /\ Registrable(ParseUrl(crResult[1][i])[1].host) = Registrable(ParseUrl(crStart)[1].host)

\* C4 happens: a finished crawl visited a page linking to other registrable
\* domains and was given a seed on one, and it returns a URL of a subdomain.
C4_Witness ==
  /\ crPc = "done"
  /\ Len(visitLog) >= 1
  /\ web[P(1)] = Html(MixedHrefs)
  /\ Loc("canon", OtherSite) \in Range(crOpts.seeds)
  /\ Loc("canon", W4) \in Range(crResult[1])
  /\ Loc("canon", P(2)) \in Range(crResult[1])

\* C16: in a rendered crawl every page handle opened for a dequeued URL is
\* closed before the next URL is dequeued, also when navigation or extraction
\* throws; when crawlInternal returns no page handle is open.
\* The code does not keep this: page.close() is the last statement of the try
\* block and is skipped when page.goto or page.$$eval throws.
C16_PageHandlesClosed == crPc \in {"loop", "done"} => openPages = 0

\* C16, the run that breaks it: a rendered crawl whose start page does not
\* navigate goes on with the next URL while the page handle is open.
C16_FailingRun ==
  /\ crPc = "loop"
  /\ crOpts.render
  /\ Len(visitLog) = 1
  /\ PageAt(visitLog[1]).fetch = "fail"
  /\ openPages = 1
  /\ CrawlContinues

\* C22: a visit whose fetch or navigation fails takes its URL from the queue
\* and adds nothing to seen, the queue or the output, and the crawl goes on in
\* its loop; a crawl that has ended has returned its output list.
C22_FailedVisitAddsNothing ==
  /\ [][/\ (crPc = "loop" /\ visitLog' # visitLog /\ PageAt(Head(q)).fetch = "fail") =>
             /\ q' = Tail(q)
             /\ out' = out
             /\ seen' = seen
             /\ crPc' = "loop"
             /\ crResult' = Undef
       ]_vars
  /\ [](crPc = "done" => crResult = Def(SetAddAll(<<>>, out)))

\* C22 happens: the start page failed, the seed after it in the queue was
\* visited and gave a new URL, and the crawl returned
C22_Witness ==
  /\ crPc = "done"
  /\ web[P(1)] = FailedPage
  /\ visitLog = <<Loc("canon", P(1)), Loc("alt", P(2))>>
  /\ crResult = Def(<<Loc("canon", P(1)), Loc("alt", P(2)), Loc("canon", P(3))>>)

\* a URL matches every include pattern that compiled and no exclude pattern
MatchesEveryIncludeNoExclude(u) ==
  /\ \A j \in 1..Len(incRE) : RegexTest(incRE[j], u)
  /\ \A j \in 1..Len(excRE) : ~RegexTest(excRE[j], u)

\* C23: every link a visit adds to the output matches every include pattern
\* (none given: nothing to match) and none of the exclude patterns.
\* The code does not keep this: matchAny lets a link pass that matches one of
\* the include patterns.
C23_EveryIncludePattern ==
  [][/\ crPc = "loop" =>
          \A i \in (Len(out) + 1)..Len(out') :
            MatchesEveryIncludeNoExclude(ParseUrl(out'[i])[1])
    ]_vars

\* C23, the run that breaks it: with the include patterns /p02 and /p03 the
\* link to /p02, which does not match /p03, is in the output
C23_FailingRun ==
  /\ crPc = "done"
  /\ crOpts.seeds = <<>>
  /\ crOpts.includePatterns = <<"(", "/p02", "/p03">>
  /\ crOpts.excludePatterns = <<>>
  /\ Loc("canon", P(2)) \in Range(crResult[1])
  /\ ~RegexTest("/p03", P(2))

\* C25: no URL that crawlInternal returns, the seeds among them, has a path
\* that ends in an asset extension.
\* The code does not keep this: the start URL and the seeds go into the output
\* without the test of ASSET_RE, which is applied to extracted links only.
C25_NoAssetInOutput ==
  crPc = "done" =>
    \A i \in 1..Len(crResult[1]) : ~IsAssetPath(ParseUrl(crResult[1][i])[1])

\* C25, the run that breaks it: the seed /logo.png of the site is returned
C25_FailingRun ==
  /\ crPc = "done"
  /\ crOpts.seeds = <<Loc("canon", Logo)>>
  /\ IsAssetPath(Logo)
  /\ Loc("canon", Logo) \in Range(crResult[1])

\* a URL without the parts the options of the crawl strip
Stripped(u) ==
  LET n1 == IF ~crOpts.includeParams THEN [u EXCEPT !.query = ""] ELSE u
  IN IF ~crOpts.keepHashSections THEN [n1 EXCEPT !.hash = ""] ELSE n1

\* C26: in the list crawlInternal returns, no URL has a query string when
\* includeParams is false, none has a fragment when keepHashSections is false,
\* and no two entries are the same URL once the stripped parts are left out.
\* The code does not keep this: the start URL and the seeds go into the output
\* as they are given; only extracted links are normalised.
C26_OutputFollowsPolicy ==
  crPc = "done" =>
    LET res == crResult[1]
        U(i) == ParseUrl(res[i])[1]
    IN /\ ~crOpts.includeParams => \A i \in 1..Len(res) : U(i).query = ""
       /\ ~crOpts.keepHashSections => \A i \in 1..Len(res) : U(i).hash = ""
       /\ \A i, j \in 1..Len(res) : Stripped(U(i)) = Stripped(U(j)) => i = j

\* C26, the run that breaks it: with both retentions off, the seed
\* /p02?x=1#s is returned with its query and fragment, next to /p02 that the
\* start page links to
C26_FailingRun ==
  /\ crPc = "done"
  /\ ~crOpts.includeParams
  /\ ~crOpts.keepHashSections
  /\ Loc("canon", [P(2) EXCEPT !.query = "?x=1", !.hash = "#s"]) \in Range(crResult[1])
  /\ Loc("canon", P(2)) \in Range(crResult[1])

\* C28: on every site of the model, those with cycles and those whose pages
\* link to more new URLs than the caps admit among them, a crawl that was
\* called returns: it reaches its end with its result, and takes at most one
\* visit per URL of the seed list and per URL enqueued under the caps.
C28_CrawlTerminates ==
  /\ (crPc = "idle") ~> (crPc = "done" /\ crResult # Undef)
  /\ [](Len(visitLog) <= Len(out))
  /\ [](crPc = "done" => (q = <<>> \/ Len(out) >= crOpts.maxPages))

\* C28 happens: a crawl on a site with a cycle (the start page links to
\* /p02, which links back) visited both pages and returned, ended by the
\* output cap with URLs left in the queue
C28_Witness ==
  /\ crPc = "done"
  /\ web[P(1)] = Html(NextHrefs)
  /\ web[P(2)] = Html(BackHrefs)
  /\ Len(visitLog) = 2
  /\ ParseUrl(visitLog[2])[1] = P(2)
  /\ q # <<>>
  /\ Len(out) >= crOpts.maxPages
  /\ crResult # Undef

\* C29: in one run of crawlInternal no URL is put into the queue twice, taken
\* from it twice or fetched twice: the URLs visited so far and those in the
\* queue are all distinct.
\* The code does not keep this: q starts as the start URL followed by the
\* seeds, and a seed equal to the start URL (or to another seed) is not
\* removed.
C29_EachUrlOnce == NoDuplicates(visitLog \o q)

\* C29, the run that breaks it: the start URL was also given as a seed and
\* has been fetched twice
C29_FailingRun ==
  /\ crPc = "done"
  /\ crOpts.seeds = <<Loc("canon", P(1))>>
  /\ visitLog = <<Loc("canon", P(1)), Loc("canon", P(1))>>

(***************************************************************************)
(* Claims about runJob                                                     *)
(***************************************************************************)
\* the main page answers with HTTP 404
MainIs404 == main # Undef /\ ~main[1].error /\ main[1].status = 404

\* the findings of the result with severity "Fehler" that name the main URL,
\* in any spelling
MainErrorFindings ==
  {i \in 1..Len(jResult[1].findings) :
     /\ jResult[1].findings[i].status = "Fehler"
     /\ ParseUrl(jResult[1].findings[i].url) = ParseUrl(MainUrl)}

\* C8: when the main page responds with HTTP 404, the result of the finished job
\* has main.flags.indexable = false and its findings contain a finding for the
\* main URL with severity "Fehler", whatever the crawl and sitemap options.
\* The code does not keep the second half: findings come only from the quick
\* analysis of the discovered URLs and the deep analysis of URLs other than the
\* main one.
C8_Main404Finding ==
  (jStatus = "done" /\ MainIs404) =>
    /\ ~jResult[1].main.indexable
    /\ MainErrorFindings # {}

\* C8, the run that breaks it: crawl, sitemap seeding and path guessing off, no
\* extra seeds; the job ends done, indexable is false, and there is no finding.
C8_FailingRun ==
  /\ jStatus = "done"
  /\ MainIs404
  /\ ~jOpts.crawl /\ ~jOpts.seedSitemap /\ ~jOpts.guessCommonPaths
  /\ jOpts.extraSeeds = <<>>
  /\ ~jResult[1].main.indexable
  /\ jResult[1].findings = <<>>

\* robots.txt is reachable, has Disallow: / and no Sitemap: line
RobotsBlocksAllNoSitemap == robots.ok /\ robots.text \in {RobotsBlockAll, RobotsBlockAllCrlf}

BroadBlockIssue == "robots.txt blockiert breitflaechig (Disallow: /) - pruefen."

\* C9: for a finished job with sitemap seeding against an origin whose reachable
\* robots.txt has Disallow: / and no Sitemap: line, the result has
\* robots.broadBlock = true, {origin}/sitemap.xml is the one sitemap candidate
\* and it is fetched, sitemapListedInRobots is false, and the issue list has the
\* entry about robots.txt blocking broadly.
C9_BroadBlockFallback ==
  (jStatus = "done" /\ jOpts.seedSitemap /\ RobotsBlocksAllNoSitemap) =>
    /\ jResult[1].robots.broadBlock = Def(TRUE)
    /\ jResult[1].sitemap.candidates = <<origin \o <<"/sitemap.xml">> >>
    /\ fetchLog # <<>> /\ fetchLog[1] = origin \o <<"/sitemap.xml">>
    /\ ~jResult[1].robots.sitemapListedInRobots
    /\ ~jResult[1].main.sitemapListedInRobots
    /\ BroadBlockIssue \in Range(jResult[1].issues)

\* C9 happens: such a job ends done, having fetched the fallback sitemap, an
\* index whose child it also fetched.
C9_Witness ==
  /\ jStatus = "done"
  /\ jOpts.seedSitemap
  /\ RobotsBlocksAllNoSitemap
  /\ robots.text = RobotsBlockAllCrlf
  /\ Len(fetchLog) = 2
  /\ jResult[1].sitemap.found
  /\ BroadBlockIssue \in Range(jResult[1].issues)

\* C11: within one job run the status is one of queued, running, done, error,
\* the progress stays in 0..100, and no update lowers the progress, also when
\* the run ends in error.
C11_ProgressNeverDecreases ==
  [][/\ jStatus' \in {"queued", "running", "done", "error"}
     /\ jProgress' \in 0..100
     /\ jProgress' >= jProgress]_vars

\* C11 happens: a job with two deep targets is done, and a job ends in error in
\* the deep stage, past the progress of the earlier stages.
C11_Witness ==
  \/ jStatus = "done" /\ Len(deepTargets) = 2 /\ jProgress = 100
  \/ jStatus = "error" /\ Len(deepTargets) = 2 /\ dI = 1 /\ jProgress = 84

\* C12: the job has a result exactly when its status is done, and an error
\* message exactly when its status is error.
C12_ResultIffDone ==
  /\ jResult # Undef <=> jStatus = "done"
  /\ jError # Undef <=> jStatus = "error"

\* C12 happens: a job is done with a result, or in error with a message.
C12_Witness ==
  \/ jStatus = "done" /\ jResult # Undef /\ Len(jResult[1].findings) > 0
  \/ jStatus = "error" /\ jError = Def("TypeError")

\* C13: once the status is done or error, no field of the Job record (status,
\* progress, result, error message, log entries) changes again.
\* The code does not keep this for the log entries: runJob calls log after
\* set({ status: "done", ... }) and after set({ status: "error", ... }), and log
\* pushes the entry onto the logs of the record that is already terminal.
C13_TerminalIsFinal ==
  [][/\ jStatus \in {"done", "error"} =>
          UNCHANGED <<jStatus, jProgress, jResult, jError, jLogs>>
    ]_vars

\* C13, the run that breaks it: the status is done and the result is stored,
\* and the entry "Job finished" is still to be pushed onto the logs.
C13_FailingRun ==
  /\ jStatus = "done"
  /\ jResult # Undef
  /\ jPc = "finished"
  /\ jLogs = <<"Job started">>

\* C14: if the navigation to the main URL fails, the job goes from running to
\* error with a message about the navigation failure, is never done, and no
\* later stage (sitemap resolution, probing, crawl, sampling) is started.
C14_MainNavigationFailure ==
  /\ [][(main = Undef /\ main' # Undef /\ main'[1].error) =>
          (jStatus = "running" /\ jStatus' = "error")]_vars
  /\ []((main # Undef /\ main[1].error) =>
          /\ jStatus = "error"
          /\ jError = Def("Navigation failed")
          /\ jPc \in {"failed", "end"}
          /\ smPc = "idle" /\ fetchLog = <<>>
          /\ crPc = "idle" /\ visitLog = <<>>
          /\ manualSeeds = <<>> /\ allUrls = <<>> /\ findings = <<>>)

\* C14 happens: the navigation to the main URL failed in a job for which sitemap
\* seeding, path guessing and crawl are on.
C14_Witness ==
  /\ main # Undef /\ main[1].error
  /\ jStatus = "error"
  /\ jOpts.seedSitemap /\ jOpts.guessCommonPaths /\ jOpts.crawl /\ jOpts.sampleSitemap

\* a deep target whose navigation fails
FailingDeepTargets ==
  {i \in 1..Len(deepTargets) : analyzeSinglePage(deepTargets[i]).error}

\* C15: if the deep analysis of a discovered URL other than the main one fails
\* to navigate, the job goes on with the remaining deep targets and ends done.
\* The code does not keep this: analyzeSinglePage returns { error } and the
\* loop reads d.flags.indexable of it, which throws; the job ends in error.
C15_DeepFailureIsPageLevel ==
  (jPc = "end" /\ main # Undef /\ ~main[1].error /\ FailingDeepTargets # {}) =>
    jStatus = "done"

\* C15, the run that breaks it: the main page is fine, the first deep target
\* does not navigate, and the job ends in error without a result.
C15_FailingRun ==
  /\ jPc = "end"
  /\ ~main[1].error /\ main[1].indexable
  /\ 1 \in FailingDeepTargets
  /\ dI = 0
  /\ jStatus = "error" /\ jError = Def("TypeError") /\ jResult = Undef

\* runJob has been called and has not returned
JobRunning == jPc \notin {"idle", "end"}

\* C30: every job that was submitted reaches done or error; when runJob has
\* returned the status is done or error, never queued or running; and every
\* step into the catch of runJob, whatever threw, stores the status error with
\* the message.
C30_JobReachesTerminal ==
  /\ (jStatus = "queued") ~> (jStatus \in {"done", "error"})
  /\ [](jPc = "end" => jStatus \in {"done", "error"})
  /\ [][/\ (jPc # "failed" /\ jPc' = "failed") =>
             (jStatus' = "error" /\ jError' # Undef /\ jResult' = Undef)
       ]_vars

\* C30 happens: a job whose deep loop threw has returned from runJob in status
\* error, after the sitemap and the crawl were gone through
C30_Witness ==
  /\ jPc = "end"
  /\ jStatus = "error"
  /\ jError = Def("TypeError")
  /\ smPc = "done"
  /\ crPc = "done"
  /\ jLogs = <<"Job started", "Job failed">>

(***************************************************************************)
(* Claims about the cap of getSitemapDeep                                   *)
(***************************************************************************)
\* C19: on every site and for every cap of at least 1, the found URLs never
\* number more than cap, the returned urls neither, and from a state of a run
\* in which cap URLs are found no step of that run fetches a sitemap document.
C19_CapStopsTraversal ==
  /\ [](/\ cap >= 1
        /\ Len(urls) <= cap
        /\ smResult # Undef => Len(smResult[1].urls) <= cap)
  /\ [][/\ (Len(urls) >= cap /\ smRun' = smRun) => fetchLog' = fetchLog
       ]_vars

\* a finished run that found cap URLs and left unfetched a urlset that the
\* candidates lead to and that lists a page not found
C19_Witness ==
  /\ smPc = "done"
  /\ Len(urls) = cap
  /\ smResult # Undef /\ Len(smResult[1].urls) = cap
  /\ \E u \in ReachableSitemaps \ Range(fetchLog) :
       /\ docs[u].kind = "urlset"
       /\ \E i \in 1..Len(docs[u].locs) :
            /\ docs[u].locs[i] = Loc("canon", PageC)
            /\ PageC \notin Range(urls)

(***************************************************************************)
(* Claims about the job store                                              *)
(***************************************************************************)
Terminal(id) == id \in DOMAIN jobs /\ jobs[id].status \in {"done", "error"}

\* C17: with several jobs running in any interleaving, a step of the run of one
\* job (its end in error included) leaves the record of every other job as it
\* is, and every job that was submitted reaches done or error.
C17_JobsAreIndependent ==
  /\ [][\A id, other \in JobIds :
          (runs'[id] # runs[id] /\ other # id /\ other \in DOMAIN jobs) =>
            (other \in DOMAIN jobs' /\ jobs'[other] = jobs[other])]_vars
  /\ \A id \in JobIds : (id \in DOMAIN jobs) ~> Terminal(id)

\* C17 happens: one job has ended in error after the other was submitted, and
\* the other is done with its own result and its own log.
C17_Witness ==
  /\ DOMAIN jobs = {1, 2}
  /\ jobs[1].status = "error" /\ jobs[1].error = Def("TypeError")
  /\ jobs[2].status = "done" /\ jobs[2].result = Def(2)
  /\ jobs[2].logs = <<"Job started", "Job finished">>
  /\ jobs[1].logs = <<"Job started", "Job failed">>

(***************************************************************************)
(* Claims about the response listener                                      *)
(***************************************************************************)
\* C18: in one navigation the listener counts at most the first 80 responses,
\* and the arrival of every response after the first 80 changes neither the
\* count, nor the byte totals, nor the number of big images, nor starts a read
\* of a body.
C18_FirstEightyOnly ==
  [][/\ respCount' <= RespCap
     /\ (observed >= RespCap /\ observed' # observed) =>
           UNCHANGED <<respCount, bytes, bigImages, pending>>
    ]_vars

\* the 81st response of a navigation, a big image, has been accounted for
C18_FailingRun ==
  /\ observed = RespCap + 1
  /\ respCount = RespCap + 1
  /\ bigImages = RespCap + 1
  /\ bytes.total = (RespCap + 1) * BigImage.len
  /\ pending = <<>>

(***************************************************************************)
(* Claims about the indexable flag                                         *)
(***************************************************************************)
\* the spellings of noindex, and a text that contains one of them
NoindexSpellings ==
  {NoindexText, <<"N", "O", "I", "N", "D", "E", "X">>,
   <<"N", "o", "I", "n", "d", "e", "x">>}
NamesNoindex(text) == \E sp \in NoindexSpellings : Includes(text, sp)

\* C20: for every analysed page, indexable is true exactly when the status is
\* in [200,400) and neither the robots meta tag nor the X-Robots-Tag header
\* contains noindex; so indexable implies a status in [200,400), and a
\* navigation without a response object has status 0 and is not indexable.
C20_IndexableIffStatusAndNoNoindex ==
  ixPc = "done" =>
    /\ indexable <=> (/\ status \in 200..399
                      /\ ~NamesNoindex(robotsMeta)
                      /\ ~NamesNoindex(xRobots))
    /\ indexable => status \in 200..399
    /\ response # Undef => status = response[1]
    /\ response = Undef => (status = 0 /\ ~indexable)

\* C20 happens: a page answered with the last status below 400 and without
\* noindex is indexable
C20_Witness ==
  /\ ixPc = "done"
  /\ response = Def(399)
  /\ robotsMeta = <<"i", "n", "d", "e", "x", ",", "f", "o", "l", "l", "o", "w">>
  /\ xRobots = <<"n", "o", "n", "e">>
  /\ indexable

(***************************************************************************)
(* Claims about invalid JSON-LD                                            *)
(***************************************************************************)
\* the page has a JSON-LD block that does not parse
HasInvalidJsonLd == \E i \in 1..Len(ldScripts) : ~ldScripts[i].parses

\* C24: for a page with a JSON-LD block that does not parse, the analysis
\* ends, counts only the blocks that parse, and the findings for the page
\* contain a finding that reports the invalid JSON-LD.
\* The code does not keep the last part: jsonLdErrors is returned in
\* structuredData.errors and read nowhere; no finding names invalid JSON-LD.
C24_InvalidJsonLdFinding ==
  (ldPc = "done" /\ HasInvalidJsonLd) =>
    /\ Len(jsonLdBlocks) = Cardinality({i \in 1..Len(ldScripts) : ldScripts[i].parses})
    /\ "Invalid JSON-LD" \in Range(ldFindings)

\* C24, the run that breaks it: the deep analysis of a page whose only JSON-LD
\* block, in <head>, does not parse recorded the error, and the one finding
\* for the page is that there is no JSON-LD
C24_FailingRun ==
  /\ ldPc = "done"
  /\ ldDeep
  /\ ldScripts = <<[parses |-> FALSE, type |-> "Organization", inHead |-> TRUE]>>
  /\ jsonLdErrors = <<"Invalid JSON-LD">>
  /\ jsonLdBlocks = <<>>
  /\ ldFindings = <<"Kein JSON-LD">>

(***************************************************************************)
(* Claims about the title and description rules                            *)
(***************************************************************************)
\* C27: for every title length that the deep check accepts as good,
\* findingsForQuickPage gives no title finding, and for every description
\* length that the deep check accepts as good it gives no description finding.
\* The code does not keep this: the light rules accept 50..60 and 140..180,
\* the deep check 30..65 and 80..180.
C27_LightRulesLooser ==
  tdPc = "done" =>
    /\ titleGood => "Title ideal 50-60 Zeichen" \notin Range(tdFindings)
    /\ metaDescGood =>
         Range(tdFindings) \cap {"Description fehlt",
                                 "Description ideal 140-180 Zeichen"} = {}

\* C27, the run that breaks it: a title of 30 and a description of 80
\* characters are good for the deep check and get both light findings
C27_FailingRun ==
  /\ tdPc = "done"
  /\ titleLen = 30 /\ titleGood
  /\ metaDescLen = 80 /\ metaDescGood
  /\ tdFindings = <<"Title ideal 50-60 Zeichen", "Description ideal 140-180 Zeichen">>

(***************************************************************************)
(* Claims about scoreFromFlags                                             *)
(***************************************************************************)
\* C5: for every combination of flag values, missing fields included, the
\* returned total is an integer in [0,100].
C5_TotalInRange == sPc = "done" => (total # Undef /\ total[1] \in 0..100)

\* a return where the sum of the four accumulators exceeds 100
C5_Witness == sPc = "done" /\ sd + tech + content + social > 100 /\ total = Def(100)

\* C6: with every flag at its best value the total is 100, and with every flag
\* false or at its worst value the total is 0.
C6_BestAndWorst ==
  sPc = "done" => /\ (allBest => total = Def(100))
                  /\ (allWorst => total = Def(0))

\* a return after every flag was read at its best value
C6_Witness == sPc = "done" /\ allBest /\ total = Def(100)

(***************************************************************************)
(* Claims about headingOrderIssues                                         *)
(***************************************************************************)
\* C7 as stated: [H1,H2,H4] yields exactly one issue, [H1,H2,H3] none and
\* [H2,H1,H3] none.
C7_AsStated ==
  hPc = "done" => /\ (hs = <<1, 2, 4>> => Len(hIssues) = 1)
                  /\ (hs = <<1, 2, 3>> => Len(hIssues) = 0)
                  /\ (hs = <<2, 1, 3>> => Len(hIssues) = 0)

\* C7 (amended): [H1,H2,H4] yields exactly one issue (H2 to H4), [H1,H2,H3]
\* yields none, and [H2,H1,H3] yields exactly one issue (H1 to H3): the decrease
\* H2 to H1 yields none.
C7_HeadingExamples ==
  hPc = "done" =>
    /\ (hs = <<1, 2, 4>> => hIssues = <<HeadingIssue(2, 4, 2)>>)
    /\ (hs = <<1, 2, 3>> => hIssues = <<>>)
    /\ (hs = <<2, 1, 3>> => hIssues = <<HeadingIssue(1, 3, 2)>>)

\* the run on [H2,H1,H3] has returned
C7_Witness == hPc = "done" /\ hs = <<2, 1, 3>> /\ Len(hIssues) = 1

\* the places (0-based index of the second heading) where the level rises by
\* more than one
JumpIndexes == {i \in 1..(Len(hs) - 1) : hs[i + 1] > hs[i] + 1}

\* C21: for every sequence of heading levels in 1..6 the returned issues are
\* exactly one per adjacent pair whose level rises by more than one, in
\* document order, each naming its pair; a pair that falls, stays or rises by
\* one yields none, and a sequence of at most one heading yields none.
C21_OneIssuePerSkip ==
  hPc = "done" =>
    /\ Len(hIssues) = Cardinality(JumpIndexes)
    /\ \A k \in 1..Len(hIssues) :
         /\ hIssues[k].index \in JumpIndexes
         /\ hIssues[k].prev = hs[hIssues[k].index]
         /\ hIssues[k].cur = hs[hIssues[k].index + 1]
    /\ \A k \in 1..(Len(hIssues) - 1) : hIssues[k].index < hIssues[k + 1].index
    /\ Len(hs) <= 1 => hIssues = <<>>

\* C21 happens: [H1,H3,H1] has returned one issue, for the rise and not for
\* the fall
C21_Witness ==
  hPc = "done" /\ hs = <<1, 3, 1>> /\ hIssues = <<HeadingIssue(1, 3, 1)>>

(***************************************************************************)
(* Specifications                                                          *)
(***************************************************************************)
\* headingOrderIssues on every sequence of up to MaxHeadings headings
InitHeading == HeadingInit /\ ScoreIdle /\ SiteIdle /\ SitemapIdle /\ CrawlArgsIdle /\ CrawlIdle /\ JobArgsIdle /\ JobIdle /\ StoreIdle /\ ListenerIdle /\ IndexIdle /\ JsonLdIdle /\ TitleDescIdle
NextHeading ==
  \/ HeadingLoop /\ UNCHANGED <<scoreVars, siteVars, sitemapVars, crawlArgs, crawlVars, jobArgs, jobVars, storeVars, listenerVars, indexVars, jsonLdVars, titleDescVars>>
  \/ HeadingReturn /\ UNCHANGED <<scoreVars, siteVars, sitemapVars, crawlArgs, crawlVars, jobArgs, jobVars, storeVars, listenerVars, indexVars, jsonLdVars, titleDescVars>>
SpecHeading == InitHeading /\ [][NextHeading]_vars

\* scoreFromFlags on every combination of flag values
InitScore == HeadingIdle /\ ScoreInit /\ SiteIdle /\ SitemapIdle /\ CrawlArgsIdle /\ CrawlIdle /\ JobArgsIdle /\ JobIdle /\ StoreIdle /\ ListenerIdle /\ IndexIdle /\ JsonLdIdle /\ TitleDescIdle
NextScore ==
  \/ ScoreRule /\ UNCHANGED <<headingVars, siteVars, sitemapVars, crawlArgs, crawlVars, jobArgs, jobVars, storeVars, listenerVars, indexVars, jsonLdVars, titleDescVars>>
  \/ ScoreReturn /\ UNCHANGED <<headingVars, siteVars, sitemapVars, crawlArgs, crawlVars, jobArgs, jobVars, storeVars, listenerVars, indexVars, jsonLdVars, titleDescVars>>
SpecScore == InitScore /\ [][NextScore]_vars

\* getSitemapDeep, run twice against every site
InitSitemap == HeadingIdle /\ ScoreIdle /\ SiteInit /\ SitemapIdle /\ CrawlArgsIdle /\ CrawlIdle /\ JobArgsIdle /\ JobIdle /\ StoreIdle /\ ListenerIdle /\ IndexIdle /\ JsonLdIdle /\ TitleDescIdle
NextSitemap ==
  \/ SitemapCall /\ UNCHANGED <<headingVars, scoreVars, crawlArgs, crawlVars, jobArgs, jobVars, storeVars, listenerVars, indexVars, jsonLdVars, titleDescVars>>
  \/ SitemapRobots /\ UNCHANGED <<headingVars, scoreVars, crawlArgs, crawlVars, jobArgs, jobVars, storeVars, listenerVars, indexVars, jsonLdVars, titleDescVars>>
  \/ SitemapCandidate /\ UNCHANGED <<headingVars, scoreVars, crawlArgs, crawlVars, jobArgs, jobVars, storeVars, listenerVars, indexVars, jsonLdVars, titleDescVars>>
  \/ SitemapIndexChild /\ UNCHANGED <<headingVars, scoreVars, crawlArgs, crawlVars, jobArgs, jobVars, storeVars, listenerVars, indexVars, jsonLdVars, titleDescVars>>
  \/ SitemapIndexReturn /\ UNCHANGED <<headingVars, scoreVars, crawlArgs, crawlVars, jobArgs, jobVars, storeVars, listenerVars, indexVars, jsonLdVars, titleDescVars>>
  \/ SitemapReturn /\ UNCHANGED <<headingVars, scoreVars, crawlArgs, crawlVars, jobArgs, jobVars, storeVars, listenerVars, indexVars, jsonLdVars, titleDescVars>>
  \/ SitemapRerun /\ UNCHANGED <<headingVars, scoreVars, crawlArgs, crawlVars, jobArgs, jobVars, storeVars, listenerVars, indexVars, jsonLdVars, titleDescVars>>
SpecSitemap == InitSitemap /\ [][NextSitemap]_vars

\* crawlInternal on every site and option set
InitCrawl == HeadingIdle /\ ScoreIdle /\ SiteIdle /\ SitemapIdle /\ CrawlInit /\ CrawlIdle /\ JobArgsIdle /\ JobIdle /\ StoreIdle /\ ListenerIdle /\ IndexIdle /\ JsonLdIdle /\ TitleDescIdle
NextCrawl ==
  \/ CrawlCall /\ UNCHANGED <<headingVars, scoreVars, siteVars, sitemapVars, jobArgs, jobVars, storeVars, listenerVars, indexVars, jsonLdVars, titleDescVars>>
  \/ CrawlVisit /\ UNCHANGED <<headingVars, scoreVars, siteVars, sitemapVars, jobArgs, jobVars, storeVars, listenerVars, indexVars, jsonLdVars, titleDescVars>>
  \/ CrawlReturn /\ UNCHANGED <<headingVars, scoreVars, siteVars, sitemapVars, jobArgs, jobVars, storeVars, listenerVars, indexVars, jsonLdVars, titleDescVars>>
SpecCrawl == InitCrawl /\ [][NextCrawl]_vars

\* the same runs, where a crawl that can take a step takes one: every await
\* of the crawl returns or throws (goto and waitForLoadState carry timeouts)
\* and the continuation is then scheduled. The weak fairness of the visit and
\* of the return is written out, each with its guard and with its effect (the
\* URL leaves the queue, the loop ends).
CrawlVisitFair ==
  <>[](crPc = "loop" /\ CrawlContinues) => []<><<q' # q>>_q
CrawlReturnFair ==
  <>[](crPc = "loop" /\ ~CrawlContinues) => []<><<crPc' = "done">>_crPc
SpecCrawlFair ==
  /\ InitCrawl
  /\ [][NextCrawl]_vars
  /\ WF_vars(CrawlCall /\ UNCHANGED <<headingVars, scoreVars, siteVars, sitemapVars, jobArgs, jobVars, storeVars, listenerVars, indexVars, jsonLdVars, titleDescVars>>)
  /\ CrawlVisitFair
  /\ CrawlReturnFair

\* one job, from POST /api/analyze to its end, for every site and option set
InitJob == HeadingIdle /\ ScoreIdle /\ SitemapIdle /\ CrawlIdle /\ JobInit /\ JobIdle /\ StoreIdle /\ ListenerIdle /\ IndexIdle /\ JsonLdIdle /\ TitleDescIdle
NextJob ==
  \/ JobSubmit /\ UNCHANGED <<headingVars, scoreVars, siteVars, sitemapVars, crawlArgs, crawlVars, storeVars, listenerVars, indexVars, jsonLdVars, titleDescVars>>
  \/ JobStart /\ UNCHANGED <<headingVars, scoreVars, siteVars, sitemapVars, crawlArgs, crawlVars, storeVars, listenerVars, indexVars, jsonLdVars, titleDescVars>>
  \/ JobMain /\ UNCHANGED <<headingVars, scoreVars, siteVars, sitemapVars, crawlArgs, crawlVars, storeVars, listenerVars, indexVars, jsonLdVars, titleDescVars>>
  \/ JobSitemapCall /\ UNCHANGED <<headingVars, scoreVars, crawlArgs, crawlVars, storeVars, listenerVars, indexVars, jsonLdVars, titleDescVars>>
  \/ SitemapRobots /\ UNCHANGED <<headingVars, scoreVars, crawlArgs, crawlVars, jobArgs, jobVars, storeVars, listenerVars, indexVars, jsonLdVars, titleDescVars>>
  \/ SitemapCandidate /\ UNCHANGED <<headingVars, scoreVars, crawlArgs, crawlVars, jobArgs, jobVars, storeVars, listenerVars, indexVars, jsonLdVars, titleDescVars>>
  \/ SitemapIndexChild /\ UNCHANGED <<headingVars, scoreVars, crawlArgs, crawlVars, jobArgs, jobVars, storeVars, listenerVars, indexVars, jsonLdVars, titleDescVars>>
  \/ SitemapIndexReturn /\ UNCHANGED <<headingVars, scoreVars, crawlArgs, crawlVars, jobArgs, jobVars, storeVars, listenerVars, indexVars, jsonLdVars, titleDescVars>>
  \/ SitemapReturn /\ UNCHANGED <<headingVars, scoreVars, crawlArgs, crawlVars, jobArgs, jobVars, storeVars, listenerVars, indexVars, jsonLdVars, titleDescVars>>
  \/ JobSeeds /\ UNCHANGED <<headingVars, scoreVars, siteVars, sitemapVars, storeVars, listenerVars, indexVars, jsonLdVars, titleDescVars>>
  \/ JobCrawlCall /\ UNCHANGED <<headingVars, scoreVars, siteVars, sitemapVars, storeVars, listenerVars, indexVars, jsonLdVars, titleDescVars>>
  \/ CrawlVisit /\ UNCHANGED <<headingVars, scoreVars, siteVars, sitemapVars, jobArgs, jobVars, storeVars, listenerVars, indexVars, jsonLdVars, titleDescVars>>
  \/ CrawlReturn /\ UNCHANGED <<headingVars, scoreVars, siteVars, sitemapVars, jobArgs, jobVars, storeVars, listenerVars, indexVars, jsonLdVars, titleDescVars>>
  \/ JobDiscovered /\ UNCHANGED <<headingVars, scoreVars, siteVars, sitemapVars, crawlArgs, crawlVars, storeVars, listenerVars, indexVars, jsonLdVars, titleDescVars>>
  \/ JobSample /\ UNCHANGED <<headingVars, scoreVars, siteVars, sitemapVars, crawlArgs, crawlVars, storeVars, listenerVars, indexVars, jsonLdVars, titleDescVars>>
  \/ JobDeep /\ UNCHANGED <<headingVars, scoreVars, siteVars, sitemapVars, crawlArgs, crawlVars, storeVars, listenerVars, indexVars, jsonLdVars, titleDescVars>>
  \/ JobFinish /\ UNCHANGED <<headingVars, scoreVars, siteVars, sitemapVars, crawlArgs, crawlVars, storeVars, listenerVars, indexVars, jsonLdVars, titleDescVars>>
  \/ JobEndLog /\ UNCHANGED <<headingVars, scoreVars, siteVars, sitemapVars, crawlArgs, crawlVars, storeVars, listenerVars, indexVars, jsonLdVars, titleDescVars>>
SpecJob == InitJob /\ [][NextJob]_vars

\* the same jobs, where a step that can be taken is taken: the handler of the
\* POST request calls runJob, and every await of the run (navigation, fetch,
\* the steps of getSitemapDeep and crawlInternal) returns or throws, after
\* which its continuation is scheduled. The weak fairness of the steps of the
\* run is written out with its guard (runJob has not returned) and its effect
\* (the state changes).
JobRunFair == <>[]JobRunning => []<><<TRUE>>_vars
SpecJobFair ==
  /\ InitJob
  /\ [][NextJob]_vars
  /\ WF_vars(JobSubmit /\ UNCHANGED <<headingVars, scoreVars, siteVars, sitemapVars, crawlArgs, crawlVars, storeVars, listenerVars, indexVars, jsonLdVars, titleDescVars>>)
  /\ JobRunFair

\* the job store with MaxJobs jobs submitted and run in any interleaving; the
\* continuation of every await of a run is scheduled once the awaited operation
\* has returned or failed
InitStore ==
  /\ HeadingIdle /\ ScoreIdle /\ SiteIdle /\ SitemapIdle /\ CrawlArgsIdle /\ CrawlIdle
  /\ JobArgsIdle /\ JobIdle /\ StoreIdle /\ ListenerIdle /\ IndexIdle /\ JsonLdIdle /\ TitleDescIdle
NextStore ==
  \/ \E id \in JobIds : StoreSubmit(id) /\ UNCHANGED <<headingVars, scoreVars, siteVars, sitemapVars, crawlArgs, crawlVars, jobArgs, jobVars, listenerVars, indexVars, jsonLdVars, titleDescVars>>
  \/ \E id \in JobIds : RunStart(id) /\ UNCHANGED <<headingVars, scoreVars, siteVars, sitemapVars, crawlArgs, crawlVars, jobArgs, jobVars, listenerVars, indexVars, jsonLdVars, titleDescVars>>
  \/ \E id \in JobIds : RunMain(id) /\ UNCHANGED <<headingVars, scoreVars, siteVars, sitemapVars, crawlArgs, crawlVars, jobArgs, jobVars, listenerVars, indexVars, jsonLdVars, titleDescVars>>
  \/ \E id \in JobIds : RunDiscovered(id) /\ UNCHANGED <<headingVars, scoreVars, siteVars, sitemapVars, crawlArgs, crawlVars, jobArgs, jobVars, listenerVars, indexVars, jsonLdVars, titleDescVars>>
  \/ \E id \in JobIds : RunSample(id) /\ UNCHANGED <<headingVars, scoreVars, siteVars, sitemapVars, crawlArgs, crawlVars, jobArgs, jobVars, listenerVars, indexVars, jsonLdVars, titleDescVars>>
  \/ \E id \in JobIds : RunDeep(id) /\ UNCHANGED <<headingVars, scoreVars, siteVars, sitemapVars, crawlArgs, crawlVars, jobArgs, jobVars, listenerVars, indexVars, jsonLdVars, titleDescVars>>
  \/ \E id \in JobIds : RunFinish(id) /\ UNCHANGED <<headingVars, scoreVars, siteVars, sitemapVars, crawlArgs, crawlVars, jobArgs, jobVars, listenerVars, indexVars, jsonLdVars, titleDescVars>>
  \/ \E id \in JobIds : RunEndLog(id) /\ UNCHANGED <<headingVars, scoreVars, siteVars, sitemapVars, crawlArgs, crawlVars, jobArgs, jobVars, listenerVars, indexVars, jsonLdVars, titleDescVars>>
SpecStore ==
  /\ InitStore
  /\ [][NextStore]_vars
  /\ \A id \in JobIds : WF_vars(RunStep(id) /\ UNCHANGED <<headingVars, scoreVars, siteVars, sitemapVars, crawlArgs, crawlVars, jobArgs, jobVars, listenerVars, indexVars, jsonLdVars, titleDescVars>>)

\* the response listener of one navigation, on every sequence of up to
\* MaxResponses responses and every order in which the bodies are read
InitListener ==
  /\ HeadingIdle /\ ScoreIdle /\ SiteIdle /\ SitemapIdle /\ CrawlArgsIdle /\ CrawlIdle
  /\ JobArgsIdle /\ JobIdle /\ StoreIdle /\ ListenerInit /\ IndexIdle /\ JsonLdIdle /\ TitleDescIdle
NextListener ==
  \/ ResponseArrives /\ UNCHANGED <<headingVars, scoreVars, siteVars, sitemapVars, crawlArgs, crawlVars, jobArgs, jobVars, storeVars, indexVars, jsonLdVars, titleDescVars>>
  \/ BodyReturns /\ UNCHANGED <<headingVars, scoreVars, siteVars, sitemapVars, crawlArgs, crawlVars, jobArgs, jobVars, storeVars, indexVars, jsonLdVars, titleDescVars>>
SpecListener == InitListener /\ [][NextListener]_vars

\* the status and the indexable flag of analyzeSinglePage, on every response
\* and every pair of robots directives
InitIndex ==
  /\ HeadingIdle /\ ScoreIdle /\ SiteIdle /\ SitemapIdle /\ CrawlArgsIdle /\ CrawlIdle
  /\ JobArgsIdle /\ JobIdle /\ StoreIdle /\ ListenerIdle /\ IndexInit /\ JsonLdIdle /\ TitleDescIdle
NextIndex ==
  \/ IndexStatus /\ UNCHANGED <<headingVars, scoreVars, siteVars, sitemapVars, crawlArgs, crawlVars, jobArgs, jobVars, storeVars, listenerVars, jsonLdVars, titleDescVars>>
  \/ IndexFlags /\ UNCHANGED <<headingVars, scoreVars, siteVars, sitemapVars, crawlArgs, crawlVars, jobArgs, jobVars, storeVars, listenerVars, jsonLdVars, titleDescVars>>
SpecIndex == InitIndex /\ [][NextIndex]_vars

\* the JSON-LD blocks of a page with up to MaxScripts script elements, analysed
\* deep or light, and the findings pushed for it
InitJsonLd ==
  /\ HeadingIdle /\ ScoreIdle /\ SiteIdle /\ SitemapIdle /\ CrawlArgsIdle /\ CrawlIdle
  /\ JobArgsIdle /\ JobIdle /\ StoreIdle /\ ListenerIdle /\ IndexIdle
  /\ JsonLdInit /\ TitleDescIdle
NextJsonLd ==
  \/ LdEach /\ UNCHANGED <<headingVars, scoreVars, siteVars, sitemapVars, crawlArgs, crawlVars, jobArgs, jobVars, storeVars, listenerVars, indexVars, titleDescVars>>
  \/ LdReturn /\ UNCHANGED <<headingVars, scoreVars, siteVars, sitemapVars, crawlArgs, crawlVars, jobArgs, jobVars, storeVars, listenerVars, indexVars, titleDescVars>>
  \/ LdDeepFindings /\ UNCHANGED <<headingVars, scoreVars, siteVars, sitemapVars, crawlArgs, crawlVars, jobArgs, jobVars, storeVars, listenerVars, indexVars, titleDescVars>>
  \/ LdQuickFindings /\ UNCHANGED <<headingVars, scoreVars, siteVars, sitemapVars, crawlArgs, crawlVars, jobArgs, jobVars, storeVars, listenerVars, indexVars, titleDescVars>>
SpecJsonLd == InitJsonLd /\ [][NextJsonLd]_vars

\* the deep flags and the light findings for every title length up to
\* MaxTitleLen and every description length up to MaxDescLen
InitTitleDesc ==
  /\ HeadingIdle /\ ScoreIdle /\ SiteIdle /\ SitemapIdle /\ CrawlArgsIdle /\ CrawlIdle
  /\ JobArgsIdle /\ JobIdle /\ StoreIdle /\ ListenerIdle /\ IndexIdle /\ JsonLdIdle
  /\ TitleDescInit
NextTitleDesc ==
  \/ TitleDescDeep /\ UNCHANGED <<headingVars, scoreVars, siteVars, sitemapVars, crawlArgs, crawlVars, jobArgs, jobVars, storeVars, listenerVars, indexVars, jsonLdVars>>
  \/ TitleDescQuick /\ UNCHANGED <<headingVars, scoreVars, siteVars, sitemapVars, crawlArgs, crawlVars, jobArgs, jobVars, storeVars, listenerVars, indexVars, jsonLdVars>>
SpecTitleDesc == InitTitleDesc /\ [][NextTitleDesc]_vars

====
